---- MODULE Spec2Model ----
(***************************************************************************)
(* ScreenRecorder: the upload pipeline (POST /api/videos/upload-raw), the  *)
(* record-view endpoint (POST /api/videos/{id}/views), the watch-progress  *)
(* endpoint (POST /api/videos/{id}/watch-sessions) and the statistics      *)
(* endpoint (GET /api/videos/{id}), each in its Drizzle and its Prisma     *)
(* variant, over the storage layer of src/lib/storage.ts; the file-serving *)
(* route (GET /api/uploads/...); the child processes of trimVideo,         *)
(* copyVideo and getVideoDuration; and the browser components              *)
(* RecorderPanel, Trimmer, Uploader and PublicPlayer.  One action is one   *)
(* completed await of a handler, or one event delivered to a component,    *)
(* together with the synchronous code that follows it.                     *)
(***************************************************************************)
EXTENDS Integers, FiniteSets, Sequences, TLC

VARIABLES
    cloud,          \* storage.ts isCloudStorage (fixed at module load)
    orm,            \* which variant of the route handlers is deployed
    nextId,         \* uuidv4(): the next fresh video id
    rawFiles,       \* uploads/raw/{id}.webm      : id -> size
    finalFiles,     \* uploads/videos/{id}.webm   : id -> size
    bucket,         \* R2/S3 objects videos/{id}.webm : id -> size
    videos,         \* Video table: id -> row
    deleteRawCalls, \* ids deleteRawVideo has been called for
    up,             \* upload requests in flight, per connection
    now,            \* Date.now(), in hours
    ticks,          \* how often the clock has advanced
    views,          \* View table: set of rows
    viewReqs,       \* record-view requests admitted so far
    vreq,           \* record-view requests in flight, per connection
    watchSessions,  \* WatchSession table: set of rows
    watchReqs,      \* watch-progress requests admitted so far
    wreq,           \* watch-progress requests in flight, per connection
    reported,       \* the progress reports answered ok, in order
    greq,           \* the GET /api/videos/{id} request in flight
    freq,           \* the GET /api/uploads/... request in flight
    fileReads,      \* resolved paths fs.readFile has been called on
    proc,           \* the child process of a trimVideo / copyVideo /
                    \* getVideoDuration call and the promise it settles
    ui              \* the state of the browser components: Trimmer (with
                    \* the page's trimData), RecorderPanel, Uploader

uploadVars == <<nextId, rawFiles, finalFiles, bucket, deleteRawCalls, up>>
viewVars   == <<now, ticks, views, viewReqs, vreq>>
watchVars  == <<watchSessions, watchReqs, wreq, reported>>
otherVars  == <<greq, freq, fileReads, proc, ui>>
vars == <<cloud, orm, videos, uploadVars, viewVars, watchVars, otherVars>>

----
\* Bounds of the model.
MaxUploads == 2      \* video ids uuidv4() hands out
MaxTicks == 3        \* clock advances
MaxViewReqs == 2     \* record-view requests that reach the View query
MaxWatchReqs == 3    \* watch-progress requests that reach the WatchSession query

Uploaders == {"u1", "u2"}
Viewers == {"a", "b"}
Watchers == {"a", "b"}
Orms == {"drizzle", "prisma"}

----
\* Optional request values: an absent form field / JSON property, or a number.
None == [k |-> "none", v |-> 0]
Num(x) == [k |-> "num", v |-> x]
IsNum(o) == o.k = "num"

NoResp == [status |-> 0, error |-> "none"]
Resp(s, e) == [status |-> s, error |-> e]

----
\* ===================== storage.ts =====================

MAX_UPLOAD_MB == 200
MAX_UPLOAD_BYTES == MAX_UPLOAD_MB * 1024 * 1024

\* getPublicUrl: the R2 public base plus the key, or the local API route.
GetPublicUrl(id) ==
    IF cloud THEN [base |-> "S3_PUBLIC_URL", key |-> id]
    ELSE [base |-> "/api/uploads", key |-> id]

\* An unlink that empties the directory.
UnlinkAll(files, id) == [i \in {} |-> 0]

\* Dropping a file from a directory (fs.unlink that succeeded).
Unlink(files, id) == [i \in DOMAIN files \ {id} |-> files[i]]

\* deleteRawVideo: fs.unlink of the raw file; an unlink error is caught and
\* logged, so the file stays (ok = FALSE) and the caller continues.
DeleteRawVideo(files, id, ok) == IF ok THEN Unlink(files, id) ELSE files

\* saveFinalVideo on success.  Cloud: PutObject of the local final file under
\* videos/{id}.webm, then a best-effort unlink of the local copy (unlinked =
\* FALSE when that unlink failed).  Local: nothing to do.
SaveFinalBucket(id) ==
    IF cloud THEN (id :> finalFiles[id]) @@ bucket ELSE bucket

SaveFinalLocal(id, unlinked) ==
    IF cloud /\ unlinked THEN Unlink(finalFiles, id) ELSE finalFiles

\* videoExists: the active backend only.
VideoExists(id) == IF cloud THEN id \in DOMAIN bucket ELSE id \in DOMAIN finalFiles

----
\* ===================== upload handler =====================

Truthy(o) == o.k = "num" /\ o.v # 0

\* startTimeStr ? parseFloat(startTimeStr) : 0
ParseStart(f) == IF f.k = "none" THEN Num(0) ELSE f
\* endTimeStr ? parseFloat(endTimeStr) : null
ParseEnd(f) == f

\* UseTrim without the test of startTime >= 0.
UseTrimAnyStart(st, en) == IsNum(en) /\ IsNum(st) /\ en.v > st.v

\* endTime !== null && startTime >= 0 && endTime > startTime
UseTrim(st, en) == IsNum(en) /\ IsNum(st) /\ st.v >= 0 /\ en.v > st.v

\* endTime && startTime ? (endTime - startTime) : 10
EstimatedDuration(st, en) ==
    IF Truthy(en) /\ Truthy(st) THEN Num(en.v - st.v) ELSE Num(10)

\* The duration written to the row.  Drizzle: the fallback replaces null only.
\* Prisma: duration || fallback, so a probed 0 is replaced as well.
RowDuration(probed, st, en) ==
    IF orm = "drizzle"
    THEN IF probed.k = "none" THEN EstimatedDuration(st, en) ELSE probed
    ELSE IF Truthy(probed) THEN probed ELSE EstimatedDuration(st, en)

\* Inputs of one upload request.
Files ==
    {[present |-> FALSE, size |-> 0, videoMime |-> FALSE, webmName |-> FALSE]}
    \cup [present : {TRUE}, size : {2, MAX_UPLOAD_BYTES + 1},
          videoMime : BOOLEAN, webmName : {FALSE}]
\* The startTime / endTime form fields: none, and a valid range.
TrimFields == {<<None, None>>, <<Num(2), Num(10)>>}
FinalSizes == {1}
ProbeResults == {None, Num(0), Num(8)}

\* What parseFloat makes of text that does not start with a number.
Nan == [k |-> "nan", v |-> 0]

\* A wider range of inputs: a file of exactly the maximum size, a .webm name
\* with or without a video MIME type; an endTime alone, ranges from 0 (one of
\* them as long as the default estimate), a negative startTime, unparseable
\* text in either field, a startTime alone, an empty range and an inverted
\* range.
WideFiles ==
    Files \cup [present : {TRUE}, size : {MAX_UPLOAD_BYTES, MAX_UPLOAD_BYTES + 1},
                videoMime : BOOLEAN, webmName : BOOLEAN]
WideTrimFields ==
    TrimFields \cup {<<None, Num(10)>>, <<Num(0), Num(10)>>, <<Num(0), Num(5)>>,
                     <<Num(-1), Num(10)>>,
                     <<Nan, Num(10)>>, <<Num(2), Nan>>, <<Num(2), None>>,
                     <<Num(2), Num(2)>>, <<Num(2), Num(1)>>}
WideUploads == 1

NoFile == [present |-> FALSE, size |-> 0, videoMime |-> FALSE, webmName |-> FALSE]
NoUrl == [base |-> "none", key |-> 0]

\* The locals of one request.  file is on record while the request is being
\* validated and saved, startTimeStr / startTime / endTime / tool until the
\* duration is settled, probed until fs.stat returns; publicUrl, duration and
\* sizeBytes are the body of a 201.  deadline is "passed" once the request has
\* run longer than maxDuration.
IdleUpload ==
    [pc |-> "idle", deadline |-> "none", file |-> NoFile, videoId |-> 0,
     startTimeStr |-> None,
     startTime |-> None, endTime |-> None,
     tool |-> "none", result |-> "none", probed |-> None, duration |-> None,
     sizeBytes |-> 0, publicUrl |-> NoUrl, resp |-> NoResp]

\* The response is returned: the request's locals are gone; its id, the
\* tool's result and the response stay on record.
UpRespond(u, r) ==
    up' = [up EXCEPT ![u] = [IdleUpload EXCEPT !.pc = "done",
                                               !.videoId = up[u].videoId,
                                               !.result = up[u].result,
                                               !.resp = r]]

\* Validate without the size limit.
ValidateNoSizeLimit(file) ==
    IF ~file.present THEN Resp(400, "missing_file")
    ELSE IF ~(file.videoMime \/ file.webmName) THEN Resp(400, "invalid_type")
    ELSE NoResp

\* Validate without the test of the MIME type and the file name.
ValidateAnyType(file) ==
    IF ~file.present THEN Resp(400, "missing_file")
    ELSE IF file.size > MAX_UPLOAD_BYTES THEN Resp(413, "file_too_large")
    ELSE NoResp

\* Validate with the type tested before the size.
ValidateTypeFirst(file) ==
    IF ~file.present THEN Resp(400, "missing_file")
    ELSE IF ~(file.videoMime \/ file.webmName) THEN Resp(400, "invalid_type")
    ELSE IF file.size > MAX_UPLOAD_BYTES THEN Resp(413, "file_too_large")
    ELSE NoResp

\* The three validations, in the handler's order: the response of the first
\* one that fails, NoResp when all pass.
Validate(file) ==
    IF ~file.present THEN Resp(400, "missing_file")
    ELSE IF file.size > MAX_UPLOAD_BYTES THEN Resp(413, "file_too_large")
    ELSE IF ~(file.videoMime \/ file.webmName) THEN Resp(400, "invalid_type")
    ELSE NoResp

\* request.formData() and the validations; a request that passes gets a
\* fresh id, its trim fields are parsed and its raw bytes are handed to
\* saveRawVideo.  The file is one of files, the trim fields one of fields,
\* and no more than limit requests are let through.
UploadReceiveFrom(u, files, fields, limit) ==
    /\ up[u].pc \in {"idle", "done"}
    /\ \E file \in files :
        \/ /\ Validate(file) # NoResp
           /\ up' = [up EXCEPT ![u] = [IdleUpload EXCEPT !.pc = "done",
                                        !.file = file,
                                        !.resp = Validate(file)]]
           /\ UNCHANGED nextId
        \/ /\ Validate(file) = NoResp
           /\ nextId <= limit
           /\ \E tf \in fields :
                up' = [up EXCEPT ![u] = [IdleUpload EXCEPT !.pc = "saveRaw",
                                         !.file = file,
                                         !.videoId = nextId,
                                         !.sizeBytes = file.size,
                                         !.startTimeStr = tf[1],
                                         !.startTime = ParseStart(tf[1]),
                                         !.endTime = ParseEnd(tf[2])]]
           /\ nextId' = nextId + 1
    /\ UNCHANGED <<rawFiles, finalFiles, bucket, deleteRawCalls>>
    /\ UNCHANGED <<cloud, orm, otherVars, videos, viewVars, watchVars>>

UploadReceive(u) == UploadReceiveFrom(u, Files, TrimFields, MaxUploads)

\* Uploads that differ in nothing but their ids: no file or a small video,
\* with no trim range.
PairFiles ==
    {[present |-> FALSE, size |-> 0, videoMime |-> FALSE, webmName |-> FALSE],
     [present |-> TRUE, size |-> 2, videoMime |-> TRUE, webmName |-> FALSE]}
PairTrimFields == {<<None, None>>}

UploadReceivePair(u) ==
    UploadReceiveFrom(u, PairFiles, PairTrimFields, MaxUploads)

\* A single upload let through, drawn from the wider inputs.
UploadReceiveWide(u) ==
    UploadReceiveFrom(u, WideFiles, WideTrimFields, WideUploads)

\* await saveRawVideo: the raw file is written, or fs.writeFile throws and the
\* catch block answers server_error.  Then trimVideo or copyVideo is started.
UploadSaveRaw(u) ==
    /\ up[u].pc = "saveRaw"
    /\ \/ /\ rawFiles' = (up[u].videoId :> up[u].sizeBytes) @@ rawFiles
          /\ up' = [up EXCEPT ![u].file = NoFile, ![u].pc = "tool"]
       \/ /\ UpRespond(u, Resp(500, "server_error"))
          /\ UNCHANGED rawFiles
    /\ UNCHANGED <<nextId, finalFiles, bucket, deleteRawCalls>>
    /\ UNCHANGED <<cloud, orm, otherVars, videos, viewVars, watchVars>>

\* UploadTool with the check of result.success left out: a failed tool run
\* goes on to fs.access like a successful one.
UploadToolIgnoresFailure(u) ==
    /\ up[u].pc = "tool"
    /\ LET id == up[u].videoId IN
       \/ /\ finalFiles' = (id :> 1) @@ finalFiles
          /\ up' = [up EXCEPT ![u].result = "ok", ![u].pc = "access"]
       \/ /\ finalFiles' = (id :> 1) @@ finalFiles
          /\ up' = [up EXCEPT ![u].result = "failed", ![u].pc = "access"]
       \/ /\ UNCHANGED finalFiles
          /\ up' = [up EXCEPT ![u].result = "failed", ![u].pc = "access"]
    /\ UNCHANGED <<nextId, rawFiles, bucket, deleteRawCalls>>
    /\ UNCHANGED <<cloud, orm, otherVars, videos, viewVars, watchVars>>

\* await trimVideo / copyVideo.  The tool exits 0 having written the final
\* file, exits 0 without output, or fails (non-zero exit or spawn error),
\* possibly leaving a partial output file.  On failure deleteRawVideo is
\* called next; on success fs.access(finalPath).
UploadTool(u) ==
    /\ up[u].pc = "tool"
    /\ LET id == up[u].videoId
           op == IF UseTrim(up[u].startTime, up[u].endTime) THEN "trim"
                 ELSE "copy"
       IN
       \/ \E sz \in FinalSizes :
            /\ finalFiles' = (id :> sz) @@ finalFiles
            /\ up' = [up EXCEPT ![u].tool = op, ![u].result = "ok",
                                ![u].pc = "access"]
       \/ /\ UNCHANGED finalFiles
          /\ up' = [up EXCEPT ![u].tool = op, ![u].result = "ok",
                              ![u].pc = "access"]
       \/ /\ \/ UNCHANGED finalFiles
             \/ finalFiles' = (id :> 1) @@ finalFiles
          /\ up' = [up EXCEPT ![u].tool = op, ![u].result = "failed",
                              ![u].pc = "cleanupTool"]
    /\ UNCHANGED <<nextId, rawFiles, bucket, deleteRawCalls>>
    /\ UNCHANGED <<cloud, orm, otherVars, videos, viewVars, watchVars>>

\* export const maxDuration = 60: the request has run for maxDuration while
\* the tool is still running.  The handler sets no timer of its own, so what
\* follows is the deployment's doing: the invocation is ended there and then
\* with a gateway timeout, none of its remaining code running; or the limit
\* is not enforced and the handler goes on as if nothing had happened.
UploadDeadline(u) ==
    /\ up[u].pc = "tool" /\ up[u].deadline = "none"
    /\ \/ up' = [up EXCEPT ![u] = [IdleUpload EXCEPT !.pc = "done",
                                    !.deadline = "passed",
                                    !.videoId = up[u].videoId,
                                    !.resp = Resp(504, "timeout")]]
       \/ up' = [up EXCEPT ![u].deadline = "passed"]
    /\ UNCHANGED <<nextId, rawFiles, finalFiles, bucket, deleteRawCalls>>
    /\ UNCHANGED <<cloud, orm, otherVars, videos, viewVars, watchVars>>

\* UploadAccess without the test: getVideoDuration is started whether the
\* final file is there or not.
UploadAccessIgnoresMissing(u) ==
    /\ up[u].pc = "access"
    /\ up' = [up EXCEPT ![u].pc = "probe"]
    /\ UNCHANGED <<nextId, rawFiles, finalFiles, bucket, deleteRawCalls>>
    /\ UNCHANGED <<cloud, orm, otherVars, videos, viewVars, watchVars>>

\* await fs.access(finalPath): the file is there and getVideoDuration is
\* started, or it is not and deleteRawVideo is called.
UploadAccess(u) ==
    /\ up[u].pc = "access"
    /\ IF up[u].videoId \in DOMAIN finalFiles
       THEN up' = [up EXCEPT ![u].pc = "probe"]
       ELSE up' = [up EXCEPT ![u].pc = "cleanupMissing"]
    /\ UNCHANGED <<nextId, rawFiles, finalFiles, bucket, deleteRawCalls>>
    /\ UNCHANGED <<cloud, orm, otherVars, videos, viewVars, watchVars>>

\* await deleteRawVideo on the two processing_failed branches, then the 500.
UploadCleanup(u) ==
    /\ up[u].pc \in {"cleanupTool", "cleanupMissing"}
    /\ \E ok \in BOOLEAN :
        rawFiles' = DeleteRawVideo(rawFiles, up[u].videoId, ok)
    /\ deleteRawCalls' = deleteRawCalls \cup {up[u].videoId}
    /\ UpRespond(u, Resp(500, "processing_failed"))
    /\ UNCHANGED <<nextId, finalFiles, bucket>>
    /\ UNCHANGED <<cloud, orm, otherVars, videos, viewVars, watchVars>>

\* await getVideoDuration: a number or null (never a throw); the fallback is
\* applied and fs.stat(finalPath) is started.
UploadProbe(u) ==
    /\ up[u].pc = "probe"
    /\ \E probed \in ProbeResults :
        up' = [up EXCEPT ![u].probed = probed,
                         ![u].duration =
                             RowDuration(probed, up[u].startTime, up[u].endTime),
                         ![u].startTimeStr = None,
                         ![u].startTime = None, ![u].endTime = None,
                         ![u].tool = "none", ![u].pc = "stat"]
    /\ UNCHANGED <<nextId, rawFiles, finalFiles, bucket, deleteRawCalls>>
    /\ UNCHANGED <<cloud, orm, otherVars, videos, viewVars, watchVars>>

\* await fs.stat(finalPath): the size, or a throw caught as server_error.
\* Drizzle goes on to saveFinalVideo, Prisma straight to the insert.
UploadStat(u) ==
    /\ up[u].pc = "stat"
    /\ \/ /\ up[u].videoId \in DOMAIN finalFiles
          /\ up' = [up EXCEPT ![u].sizeBytes = finalFiles[up[u].videoId],
                              ![u].probed = None,
                              ![u].pc = IF orm = "drizzle" THEN "publish"
                                        ELSE "insert"]
       \/ UpRespond(u, Resp(500, "server_error"))
    /\ UNCHANGED <<nextId, rawFiles, finalFiles, bucket, deleteRawCalls>>
    /\ UNCHANGED <<cloud, orm, otherVars, videos, viewVars, watchVars>>

\* await saveFinalVideo (Drizzle route only): published, or the read or the
\* PutObject throws and the catch block answers server_error.
UploadPublish(u) ==
    /\ up[u].pc = "publish"
    /\ LET id == up[u].videoId IN
       \/ /\ id \in DOMAIN finalFiles
          /\ bucket' = SaveFinalBucket(id)
          /\ \E unlinked \in BOOLEAN : finalFiles' = SaveFinalLocal(id, unlinked)
          /\ up' = [up EXCEPT ![u].pc = "insert"]
       \/ /\ cloud
          /\ UpRespond(u, Resp(500, "server_error"))
          /\ UNCHANGED <<bucket, finalFiles>>
    /\ UNCHANGED <<nextId, rawFiles, deleteRawCalls>>
    /\ UNCHANGED <<cloud, orm, otherVars, videos, viewVars, watchVars>>

\* NewVideoRow with a view already counted.
NewVideoRowViewed(u) ==
    [durationSeconds |-> up[u].duration.v, sizeBytes |-> up[u].sizeBytes,
     publicUrl |-> GetPublicUrl(up[u].videoId), viewCount |-> 1]

NewVideoRow(u) ==
    [durationSeconds |-> up[u].duration.v, sizeBytes |-> up[u].sizeBytes,
     publicUrl |-> GetPublicUrl(up[u].videoId), viewCount |-> 0]

\* UploadInsert with a failed insert followed by a delete of the published
\* bytes.
UploadInsertCompensates(u) ==
    /\ up[u].pc = "insert"
    /\ \/ /\ videos' = (up[u].videoId :> NewVideoRow(u)) @@ videos
          /\ up' = [up EXCEPT ![u].publicUrl = NewVideoRow(u).publicUrl,
                              ![u].pc = "finish"]
          /\ UNCHANGED <<finalFiles, bucket>>
       \/ /\ UpRespond(u, Resp(500, "server_error"))
          /\ bucket' = Unlink(bucket, up[u].videoId)
          /\ finalFiles' = Unlink(finalFiles, up[u].videoId)
          /\ UNCHANGED videos
    /\ UNCHANGED <<nextId, rawFiles, deleteRawCalls>>
    /\ UNCHANGED <<cloud, orm, otherVars, viewVars, watchVars>>

\* await db.insert(videos) / prisma.video.create: the row is written and
\* deleteRawVideo is called, or the insert throws (server_error).
UploadInsert(u) ==
    /\ up[u].pc = "insert"
    /\ \/ /\ videos' = (up[u].videoId :> NewVideoRow(u)) @@ videos
          /\ up' = [up EXCEPT ![u].publicUrl = NewVideoRow(u).publicUrl,
                              ![u].pc = "finish"]
       \/ /\ UpRespond(u, Resp(500, "server_error"))
          /\ UNCHANGED videos
    /\ UNCHANGED <<nextId, rawFiles, finalFiles, bucket, deleteRawCalls>>
    /\ UNCHANGED <<cloud, orm, otherVars, viewVars, watchVars>>

\* UploadFinish without the call of deleteRawVideo.
UploadFinishKeepsRaw(u) ==
    /\ up[u].pc = "finish"
    /\ up' = [up EXCEPT ![u] = [IdleUpload EXCEPT
                    !.pc = "done", !.videoId = up[u].videoId,
                    !.result = up[u].result, !.duration = up[u].duration,
                    !.sizeBytes = up[u].sizeBytes,
                    !.publicUrl = up[u].publicUrl,
                    !.resp = Resp(201, "none")]]
    /\ UNCHANGED <<nextId, rawFiles, finalFiles, bucket, deleteRawCalls>>
    /\ UNCHANGED <<cloud, orm, otherVars, videos, viewVars, watchVars>>

\* await deleteRawVideo after the insert, then the 201 whose body carries
\* videoId, publicUrl, duration and sizeBytes (Drizzle: the locals that were
\* inserted; Prisma: the fields of the row that create returned).
UploadFinish(u) ==
    /\ up[u].pc = "finish"
    /\ \E ok \in BOOLEAN :
        rawFiles' = DeleteRawVideo(rawFiles, up[u].videoId, ok)
    /\ deleteRawCalls' = deleteRawCalls \cup {up[u].videoId}
    /\ up' = [up EXCEPT ![u] = [IdleUpload EXCEPT
                    !.pc = "done", !.videoId = up[u].videoId,
                    !.result = up[u].result, !.duration = up[u].duration,
                    !.sizeBytes = up[u].sizeBytes,
                    !.publicUrl = up[u].publicUrl,
                    !.resp = Resp(201, "none")]]
    /\ UNCHANGED <<nextId, finalFiles, bucket>>
    /\ UNCHANGED <<cloud, orm, otherVars, videos, viewVars, watchVars>>


----
\* ===================== record-view endpoint =====================

\* Deduplication window in hours
DEDUP_HOURS == 24

\* Path and body values of the analytics requests.  "" is an absent sessionId;
\* UnknownVideo is an id no upload is ever given.
UnknownVideo == MaxUploads + 1
SessionInputs == {"", "s1", "s2"}
\* The clock advances half a deduplication window at a time.
TickHours == {12}

IdleView ==
    [pc |-> "idle", n |-> 0, videoId |-> 0, sessionId |-> "", cutoff |-> 0,
     createdAt |-> 0, resp |-> NoResp,
     count0 |-> 0, rows0 |-> 0]    \* viewCount and row count when admitted

\* The response is returned: the request's locals are gone.
VRespond(p, r) ==
    vreq' = [vreq EXCEPT ![p] = [IdleView EXCEPT !.pc = "done", !.resp = r]]

\* RecentViews with the sessionId condition left out of the query.
RecentViewsAnySession(vid, sid, cutoff) ==
    {r \in views : r.videoId = vid /\ r.createdAt >= cutoff}

\* RecentViews with the window's boundary excluded (gt instead of gte).
RecentViewsStrict(vid, sid, cutoff) ==
    {r \in views : r.videoId = vid /\ r.sessionId = sid /\ r.createdAt > cutoff}

\* findFirst with videoId, sessionId and createdAt >= cutoffTime
RecentViews(vid, sid, cutoff) ==
    {r \in views : r.videoId = vid /\ r.sessionId = sid /\ r.createdAt >= cutoff}

ViewRow(p, at) ==
    [id |-> vreq[p].n, videoId |-> vreq[p].videoId,
     sessionId |-> vreq[p].sessionId, createdAt |-> at]

\* An increment computed by the handler from the viewCount it read when the
\* request came in.
IncrementFromRead(vid) ==
    LET writers == {p \in DOMAIN vreq : vreq[p].videoId = vid
                                        /\ vreq[p].pc \in {"update", "txn"}}
        read == CHOOSE c \in {vreq[p].count0 : p \in writers} :
                    \A p \in writers : c <= vreq[p].count0
    IN IF vid \in DOMAIN videos /\ writers # {}
       THEN [videos EXCEPT ![vid].viewCount = read + 1]
       ELSE videos

\* An increment applied to every row of the Video table.
IncrementEveryViewCount(vid) ==
    [v \in DOMAIN videos |-> [videos[v] EXCEPT !.viewCount = @ + 1]]

\* viewCount = viewCount + 1, evaluated inside the database
IncrementViewCount(vid) ==
    IF vid \in DOMAIN videos
    THEN [videos EXCEPT ![vid].viewCount = videos[vid].viewCount + 1]
    ELSE videos

Tick ==
    /\ ticks < MaxTicks
    /\ \E d \in TickHours : now' = now + d
    /\ ticks' = ticks + 1
    /\ UNCHANGED <<views, viewReqs, vreq>>
    /\ UNCHANGED <<cloud, orm, otherVars, videos, uploadVars, watchVars>>

\* params, request.json() and the sessionId check; then the video lookup is
\* started.
ViewReceive(p) ==
    /\ vreq[p].pc \in {"idle", "done"}
    /\ \E vid \in DOMAIN videos \cup {UnknownVideo}, sid \in SessionInputs :
        \/ /\ sid = ""
           /\ VRespond(p, Resp(400, "missing_session_id"))
           /\ UNCHANGED viewReqs
        \/ /\ sid # ""
           /\ viewReqs < MaxViewReqs
           /\ viewReqs' = viewReqs + 1
           /\ vreq' = [vreq EXCEPT ![p] = [IdleView EXCEPT !.pc = "findVideo",
                            !.n = viewReqs + 1, !.videoId = vid,
                            !.sessionId = sid,
                            !.count0 = IF vid \in DOMAIN videos
                                       THEN videos[vid].viewCount ELSE 0,
                            !.rows0 = Cardinality(views)]]
    /\ UNCHANGED <<now, ticks, views>>
    /\ UNCHANGED <<cloud, orm, otherVars, videos, uploadVars, watchVars>>

\* await findFirst/findUnique of the video: 404 when there is none, else the
\* cutoff is computed from Date.now() and the View query is started.
ViewFindVideo(p) ==
    /\ vreq[p].pc = "findVideo"
    /\ \/ /\ vreq[p].videoId \notin DOMAIN videos
          /\ VRespond(p, Resp(404, "not_found"))
       \/ /\ vreq[p].videoId \in DOMAIN videos
          /\ vreq' = [vreq EXCEPT ![p].cutoff = now - DEDUP_HOURS,
                                  ![p].pc = "findView"]
       \/ VRespond(p, Resp(500, "server_error"))
    /\ UNCHANGED <<now, ticks, views, viewReqs>>
    /\ UNCHANGED <<cloud, orm, otherVars, videos, uploadVars, watchVars>>

\* await findFirst of a recent View: deduplicated when there is one.  Else the
\* Drizzle route builds the row (createdAt: new Date()) and starts the insert;
\* the Prisma route starts the transaction.
ViewFindView(p) ==
    /\ vreq[p].pc = "findView"
    /\ \/ /\ RecentViews(vreq[p].videoId, vreq[p].sessionId, vreq[p].cutoff) # {}
          /\ VRespond(p, Resp(200, "deduplicated"))
       \/ /\ RecentViews(vreq[p].videoId, vreq[p].sessionId, vreq[p].cutoff) = {}
          /\ vreq' = [vreq EXCEPT ![p].createdAt = now,
                                  ![p].pc = IF orm = "drizzle" THEN "insert"
                                            ELSE "txn"]
       \/ VRespond(p, Resp(500, "server_error"))
    /\ UNCHANGED <<now, ticks, views, viewReqs>>
    /\ UNCHANGED <<cloud, orm, otherVars, videos, uploadVars, watchVars>>

\* Drizzle: await db.insert(views); then the update is started.
ViewInsert(p) ==
    /\ vreq[p].pc = "insert"
    /\ \/ /\ views' = views \cup {ViewRow(p, vreq[p].createdAt)}
          /\ vreq' = [vreq EXCEPT ![p].pc = "update"]
       \/ /\ VRespond(p, Resp(500, "server_error"))
          /\ UNCHANGED views
    /\ UNCHANGED <<now, ticks, viewReqs>>
    /\ UNCHANGED <<cloud, orm, otherVars, videos, uploadVars, watchVars>>

\* Drizzle: await db.update(videos) of the view count; then {ok: true}.
ViewUpdate(p) ==
    /\ vreq[p].pc = "update"
    /\ \/ /\ videos' = IncrementViewCount(vreq[p].videoId)
          /\ VRespond(p, Resp(200, "ok"))
       \/ /\ VRespond(p, Resp(500, "server_error"))
          /\ UNCHANGED videos
    /\ UNCHANGED <<now, ticks, views, viewReqs>>
    /\ UNCHANGED <<cloud, orm, otherVars, uploadVars, watchVars>>

\* Prisma: await prisma.$transaction([view.create, video.update]): both
\* writes or, when it throws, neither.  createdAt defaults to now().
ViewTxn(p) ==
    /\ vreq[p].pc = "txn"
    /\ \/ /\ views' = views \cup {ViewRow(p, now)}
          /\ videos' = IncrementViewCount(vreq[p].videoId)
          /\ VRespond(p, Resp(200, "ok"))
       \/ /\ VRespond(p, Resp(500, "server_error"))
          /\ UNCHANGED <<views, videos>>
    /\ UNCHANGED <<now, ticks, viewReqs>>
    /\ UNCHANGED <<cloud, orm, otherVars, uploadVars, watchVars>>

----
\* ===================== watch-progress endpoint =====================

\* Numbers the handler computes are JavaScript doubles; a percentage is kept
\* here as an exact fraction <<numerator, denominator>> in lowest terms with a
\* positive denominator.
Abs(x) == IF x < 0 THEN -x ELSE x

RECURSIVE GCD(_, _)
GCD(a, b) == IF b = 0 THEN a ELSE GCD(b, a % b)

Frac(n, d) ==
    LET g == GCD(Abs(n), Abs(d))
        sgn == IF d < 0 THEN -1 ELSE 1
    IN <<(sgn * n) \div g, (sgn * d) \div g>>

FracLess(x, y) == x[1] * y[2] < y[1] * x[2]

\* Math.min(100, (watchedSeconds / videoDuration) * 100)
WatchedPercentage(watchedSeconds, videoDuration) ==
    LET q == Frac(watchedSeconds * 100, videoDuration)
    IN IF FracLess(<<100, 1>>, q) THEN <<100, 1>> ELSE q

\* ShouldUpdate that overwrites on every report, greater or not.
ShouldUpdateAlways(watchedSeconds, stored) == TRUE

\* watchedSeconds > existingSession.maxWatchedSeconds
ShouldUpdate(watchedSeconds, stored) == watchedSeconds > stored

\* Bodies of a progress report: None is an absent property, "" an absent
\* sessionId.  Every complete report of session s1, one of session s2, and
\* one body without sessionId.
WatchedInputs == {Num(5), Num(8), Num(12)}
DurationInputs == {Num(10), Num(20)}
WatchBodies ==
    [sessionId : {"s1"}, watchedSeconds : WatchedInputs,
     videoDuration : DurationInputs]
    \cup {[sessionId |-> "s2", watchedSeconds |-> Num(8), videoDuration |-> Num(10)],
          [sessionId |-> "", watchedSeconds |-> Num(5), videoDuration |-> Num(10)]}

\* Bodies for the rejections: two complete reports, one of them with
\* watchedSeconds 0, and one body with each required field absent (or, for
\* videoDuration, 0).
FrameBodies ==
    {[sessionId |-> "s1", watchedSeconds |-> Num(5), videoDuration |-> Num(10)],
     [sessionId |-> "s1", watchedSeconds |-> Num(0), videoDuration |-> Num(10)],
     [sessionId |-> "", watchedSeconds |-> Num(5), videoDuration |-> Num(10)],
     [sessionId |-> "s1", watchedSeconds |-> None, videoDuration |-> Num(10)],
     [sessionId |-> "s1", watchedSeconds |-> Num(5), videoDuration |-> None],
     [sessionId |-> "s1", watchedSeconds |-> Num(5), videoDuration |-> Num(0)]}

NoBody == [sessionId |-> "", watchedSeconds |-> None, videoDuration |-> None]

\* The locals of one request; body is on record while the request is being
\* validated and looked up, and with a 400.
IdleWatch ==
    [pc |-> "idle", body |-> NoBody, n |-> 0, videoId |-> 0, sessionId |-> "",
     watchedSeconds |-> 0, videoDuration |-> 0, pct |-> <<0, 1>>,
     existing |-> 0, resp |-> NoResp]

\* The response is returned; watchedPercentage is part of an ok response.
WRespond(p, r) ==
    wreq' = [wreq EXCEPT ![p] = [IdleWatch EXCEPT !.pc = "done", !.resp = r,
                !.pct = IF r.status = 200 THEN wreq[p].pct ELSE <<0, 1>>]]

\* A lookup that finds no row.
SessionsOfNone(vid, sid) == {}

\* findFirst with videoId and sessionId
SessionsOf(vid, sid) ==
    {r \in watchSessions : r.videoId = vid /\ r.sessionId = sid}

\* Reports with a negative watchedSeconds, a negative videoDuration, or both:
\* numbers that pass the missing_fields check like any other non-zero number.
SignedBodies ==
    {[sessionId |-> "s1", watchedSeconds |-> Num(-5), videoDuration |-> Num(10)],
     [sessionId |-> "s1", watchedSeconds |-> Num(5), videoDuration |-> Num(-10)],
     [sessionId |-> "s1", watchedSeconds |-> Num(-5), videoDuration |-> Num(-10)]}

\* MissingFields without the test of videoDuration.
MissingFieldsIgnoresDuration(body) ==
    body.sessionId = "" \/ body.watchedSeconds.k = "none"

\* !sessionId || watchedSeconds === undefined || !videoDuration
MissingFields(body) ==
    body.sessionId = "" \/ body.watchedSeconds.k = "none"
        \/ ~Truthy(body.videoDuration)

\* params, request.json() and the missing_fields check; then the video lookup
\* is started.  The body is any one of bodies.
WatchReceiveFrom(p, bodies) ==
    /\ wreq[p].pc \in {"idle", "done"}
    /\ \E body \in bodies :
        \/ /\ MissingFields(body)
           /\ wreq' = [wreq EXCEPT ![p] = [IdleWatch EXCEPT !.pc = "done",
                            !.body = body,
                            !.resp = Resp(400, "missing_fields")]]
           /\ UNCHANGED watchReqs
        \/ /\ ~MissingFields(body)
           /\ watchReqs < MaxWatchReqs
           /\ watchReqs' = watchReqs + 1
           /\ \E vid \in DOMAIN videos \cup {UnknownVideo} :
                wreq' = [wreq EXCEPT ![p] = [IdleWatch EXCEPT
                            !.pc = "findVideo", !.body = body,
                            !.n = watchReqs + 1, !.videoId = vid,
                            !.sessionId = body.sessionId,
                            !.watchedSeconds = body.watchedSeconds.v,
                            !.videoDuration = body.videoDuration.v]]
    /\ UNCHANGED <<watchSessions, reported>>
    /\ UNCHANGED <<cloud, orm, otherVars, videos, uploadVars, viewVars>>

WatchReceive(p) == WatchReceiveFrom(p, WatchBodies)

\* PublicPlayer.sendWatchSession: with maxWatched > 0 and a session id, the
\* JSON body it posts, by property name; else nothing is sent.
PlayerMaxWatched == {0, 5, 12}
PlayerSessions == {"", "s1"}
PlayerJson(sid, maxWatched, duration) ==
    [sessionId |-> sid, maxWatchedSeconds |-> Num(maxWatched),
     durationSeconds |-> Num(duration), watchedSeconds |-> None,
     videoDuration |-> None]
SendWatchSession(sid, maxWatched, duration) ==
    IF maxWatched > 0 /\ sid # "" THEN {PlayerJson(sid, maxWatched, duration)}
    ELSE {}

\* const { sessionId, ... } = body: the Drizzle route reads watchedSeconds
\* and videoDuration, the Prisma route maxWatchedSeconds and durationSeconds.
Destructure(json) ==
    IF orm = "drizzle"
    THEN [sessionId |-> json.sessionId, watchedSeconds |-> json.watchedSeconds,
          videoDuration |-> json.videoDuration]
    ELSE [sessionId |-> json.sessionId,
          watchedSeconds |-> json.maxWatchedSeconds,
          videoDuration |-> json.durationSeconds]

\* A report of the player of video 1 (duration 8) arrives.
WatchReceivePlayer(p) ==
    WatchReceiveFrom(p,
        {Destructure(j) : j \in UNION {SendWatchSession(sid, m, 8) :
                                        sid \in PlayerSessions,
                                        m \in PlayerMaxWatched}})

\* A report drawn from the bodies for the rejections.
WatchReceiveFrame(p) == WatchReceiveFrom(p, FrameBodies)

\* A report whose numbers may be negative.
WatchReceiveSigned(p) == WatchReceiveFrom(p, WatchBodies \cup SignedBodies)

\* await the video lookup: 404 when there is none, else the percentage is
\* computed and the WatchSession query is started.
WatchFindVideo(p) ==
    /\ wreq[p].pc = "findVideo"
    /\ \/ /\ wreq[p].videoId \notin DOMAIN videos
          /\ WRespond(p, Resp(404, "not_found"))
       \/ /\ wreq[p].videoId \in DOMAIN videos
          /\ wreq' = [wreq EXCEPT ![p].pct =
                        WatchedPercentage(wreq[p].watchedSeconds,
                                          wreq[p].videoDuration),
                                  ![p].body = NoBody,
                                  ![p].pc = "findSession"]
       \/ WRespond(p, Resp(500, "server_error"))
    /\ UNCHANGED <<watchSessions, watchReqs, reported>>
    /\ UNCHANGED <<cloud, orm, otherVars, videos, uploadVars, viewVars>>

WReport(p) ==
    <<wreq[p].videoId, wreq[p].sessionId, wreq[p].watchedSeconds,
      wreq[p].videoDuration>>

\* await findFirst of the pair's WatchSession (any one of them when several
\* exist: the Drizzle query has no order, the Prisma query orders by a
\* createdAt that concurrent inserts share).  A row found is updated only for
\* a greater watchedSeconds, else nothing is written; with no row an insert is
\* started.
WatchFindSession(p) ==
    /\ wreq[p].pc = "findSession"
    /\ LET found == SessionsOf(wreq[p].videoId, wreq[p].sessionId) IN
       \/ /\ \E ex \in found :
                IF ShouldUpdate(wreq[p].watchedSeconds, ex.maxWatchedSeconds)
                THEN /\ wreq' = [wreq EXCEPT ![p].existing = ex.id,
                                             ![p].pc = "update"]
                     /\ UNCHANGED reported
                ELSE /\ WRespond(p, Resp(200, "ok"))
                     /\ reported' = Append(reported, WReport(p))
       \/ /\ found = {}
          /\ wreq' = [wreq EXCEPT ![p].pc = "insert"]
          /\ UNCHANGED reported
       \/ /\ WRespond(p, Resp(500, "server_error"))
          /\ UNCHANGED reported
    /\ UNCHANGED <<watchSessions, watchReqs>>
    /\ UNCHANGED <<cloud, orm, otherVars, videos, uploadVars, viewVars>>

\* set({maxWatchedSeconds, watchedPercentage}) where id = existingSession.id
UpdateSession(rows, id, watchedSeconds, pct) ==
    {IF r.id = id
     THEN [r EXCEPT !.maxWatchedSeconds = watchedSeconds,
                    !.watchedPercentage = pct]
     ELSE r : r \in rows}

\* await the update of the row found, then {ok: true, watchedPercentage}.
WatchUpdate(p) ==
    /\ wreq[p].pc = "update"
    /\ \/ /\ watchSessions' = UpdateSession(watchSessions, wreq[p].existing,
                                            wreq[p].watchedSeconds, wreq[p].pct)
          /\ WRespond(p, Resp(200, "ok"))
          /\ reported' = Append(reported, WReport(p))
       \/ /\ WRespond(p, Resp(500, "server_error"))
          /\ UNCHANGED <<watchSessions, reported>>
    /\ UNCHANGED watchReqs
    /\ UNCHANGED <<cloud, orm, otherVars, videos, uploadVars, viewVars>>

NewSession(p) ==
    [id |-> wreq[p].n, videoId |-> wreq[p].videoId,
     sessionId |-> wreq[p].sessionId,
     maxWatchedSeconds |-> wreq[p].watchedSeconds,
     durationSeconds |-> wreq[p].videoDuration,
     watchedPercentage |-> wreq[p].pct]

\* await the insert of a new row, then {ok: true, watchedPercentage}.
WatchInsert(p) ==
    /\ wreq[p].pc = "insert"
    /\ \/ /\ watchSessions' = watchSessions \cup {NewSession(p)}
          /\ WRespond(p, Resp(200, "ok"))
          /\ reported' = Append(reported, WReport(p))
       \/ /\ WRespond(p, Resp(500, "server_error"))
          /\ UNCHANGED <<watchSessions, reported>>
    /\ UNCHANGED watchReqs
    /\ UNCHANGED <<cloud, orm, otherVars, videos, uploadVars, viewVars>>

----
\* ===================== video statistics endpoint =====================

FracAdd(x, y) == Frac(x[1] * y[2] + y[1] * x[2], x[2] * y[2])

RECURSIVE SumOf(_)
SumOf(rows) ==
    IF rows = {} THEN <<0, 1>>
    ELSE LET r == CHOOSE r \in rows : TRUE
         IN FracAdd(r.watchedPercentage, SumOf(rows \ {r}))

\* What the aggregate returns: NULL over no rows.
NullAvg == [k |-> "none", v |-> <<0, 1>>]

\* A result that is the percentage of one of the rows, not their mean.
AvgOfAnyRow(vid) ==
    LET rows == {r \in watchSessions : r.videoId = vid}
    IN IF rows = {} THEN NullAvg
       ELSE [k |-> "num", v |-> (CHOOSE r \in rows : TRUE).watchedPercentage]

\* select avg(watched_percentage) ... where video_id = videoId, and
\* aggregate({where: {videoId}, _avg: {watchedPercentage: true}})
AvgResult(vid) ==
    LET rows == {r \in watchSessions : r.videoId = vid}
        sum == SumOf(rows)
    IN IF rows = {} THEN NullAvg
       ELSE [k |-> "num", v |-> Frac(sum[1], sum[2] * Cardinality(rows))]

\* Drizzle: Number(watchStats[0]?.avgPercentage ?? 0), the aggregate arriving
\* as the decimal text of a double, which Number reads back to that double.
\* Prisma: watchStats._avg.watchedPercentage || 0.
AvgWatchPercentage(vid) ==
    LET a == AvgResult(vid)
    IN IF a.k = "none" THEN <<0, 1>>
       ELSE IF orm = "prisma" /\ a.v[1] = 0 THEN <<0, 1>>
       ELSE a.v

IdleGet == [pc |-> "idle", videoId |-> 0, avg |-> <<0, 1>>, resp |-> NoResp]

GRespond(r) == greq' = [IdleGet EXCEPT !.pc = "done", !.resp = r]

\* params; the video lookup is started.
GetReceive ==
    /\ greq.pc \in {"idle", "done"}
    /\ \E vid \in DOMAIN videos \cup {UnknownVideo} :
        greq' = [IdleGet EXCEPT !.pc = "findVideo", !.videoId = vid]
    /\ UNCHANGED <<freq, fileReads, proc, ui>>
    /\ UNCHANGED <<cloud, orm, videos, uploadVars, viewVars, watchVars>>

\* await the video lookup: 404 when there is none, else the aggregate over
\* the video's WatchSession rows is started.
GetFindVideo ==
    /\ greq.pc = "findVideo"
    /\ \/ /\ greq.videoId \notin DOMAIN videos
          /\ GRespond(Resp(404, "not_found"))
       \/ /\ greq.videoId \in DOMAIN videos
          /\ greq' = [greq EXCEPT !.pc = "aggregate"]
       \/ GRespond(Resp(500, "server_error"))
    /\ UNCHANGED <<freq, fileReads, proc, ui>>
    /\ UNCHANGED <<cloud, orm, videos, uploadVars, viewVars, watchVars>>

\* await the aggregate, then the 200 that carries the average.
GetAggregate ==
    /\ greq.pc = "aggregate"
    /\ \/ greq' = [IdleGet EXCEPT !.pc = "done", !.videoId = greq.videoId,
                                   !.avg = AvgWatchPercentage(greq.videoId),
                                   !.resp = Resp(200, "ok")]
       \/ GRespond(Resp(500, "server_error"))
    /\ UNCHANGED <<freq, fileReads, proc, ui>>
    /\ UNCHANGED <<cloud, orm, videos, uploadVars, viewVars, watchVars>>

\* Reports for the statistics: two of session s1 and one of session s2.
StatsBodies ==
    {[sessionId |-> "s1", watchedSeconds |-> Num(5), videoDuration |-> Num(10)],
     [sessionId |-> "s1", watchedSeconds |-> Num(8), videoDuration |-> Num(10)],
     [sessionId |-> "s2", watchedSeconds |-> Num(5), videoDuration |-> Num(20)],
     [sessionId |-> "", watchedSeconds |-> Num(5), videoDuration |-> Num(10)]}

WatchReceiveStats(p) == WatchReceiveFrom(p, StatsBodies)

----
\* ===================== file-serving route =====================

\* A path is a sequence of names and a name a sequence of characters, so
\* that the text of a path can be compared character by character.
Dot == <<".">>
DotDot == <<".", ".">>
AppName == <<"a", "p", "p">>
UploadsName == <<"u", "p">>
SiblingName == <<"u", "p", "2">>
MediaName == <<"f">>

\* process.cwd() is /app; UPLOAD_DIR is ./up.
Cwd == <<AppName>>
UPLOAD_DIR == <<Dot, UploadsName>>

\* What is on disk: a media file under the upload root, one in the sibling
\* directory /app/up2, one in /app; and the directories above them.
DiskFiles ==
    {<<AppName, UploadsName, MediaName>>, <<AppName, SiblingName, MediaName>>,
     <<AppName, MediaName>>}
DiskDirs == {<<>>, <<AppName>>, <<AppName, UploadsName>>, <<AppName, SiblingName>>}
MediaSize == 4

RECURSIVE Normalize(_, _)
\* "." is dropped and ".." takes the last name away (none at the root).
Normalize(names, acc) ==
    IF names = <<>> THEN acc
    ELSE LET n == Head(names) IN
         IF n = Dot THEN Normalize(Tail(names), acc)
         ELSE IF n = DotDot
         THEN Normalize(Tail(names),
                        IF acc = <<>> THEN acc ELSE SubSeq(acc, 1, Len(acc) - 1))
         ELSE Normalize(Tail(names), Append(acc, n))

\* path.resolve of a relative path
PathResolve(rel) == Normalize(Cwd \o rel, <<>>)

RECURSIVE PathText(_)
\* The characters of an absolute path.
PathText(names) ==
    IF names = <<>> THEN <<>>
    ELSE <<"/">> \o Head(names) \o PathText(Tail(names))

\* String.prototype.startsWith
StartsWith(text, prefix) ==
    Len(prefix) <= Len(text) /\ SubSeq(text, 1, Len(prefix)) = prefix

\* !resolvedPath.startsWith(resolvedUploadDir)
Forbidden(resolvedPath) ==
    ~StartsWith(PathText(resolvedPath), PathText(PathResolve(UPLOAD_DIR)))

\* The path segments of a request: one to three names.
SegmentNames == {DotDot, UploadsName, SiblingName, MediaName}
PathSegments ==
    UNION {[1..n -> SegmentNames] : n \in 1..3}

\* The Range header: absent, or bytes=start-end with either number left
\* out, the end beyond the file, or the start after the end.
NoRange == [present |-> FALSE, start |-> None, end |-> None]
RangeHeaders ==
    {NoRange,
     [present |-> TRUE, start |-> Num(0), end |-> Num(1)],
     [present |-> TRUE, start |-> Num(2), end |-> None],
     [present |-> TRUE, start |-> Nan, end |-> Num(2)],
     [present |-> TRUE, start |-> Num(3), end |-> Num(9)],
     [present |-> TRUE, start |-> Num(3), end |-> Num(1)]}

\* The headers and the body length of a 200 or 206.
NoServed == [contentRange |-> <<None, None, None>>, contentLength |-> None,
             bodyLength |-> 0]

Clamp(x, lo, hi) == IF x < lo THEN lo ELSE IF x > hi THEN hi ELSE x

\* fileBuffer.subarray(start, end + 1).length; NaN is taken as 0.
SubarrayLength(start, end, size) ==
    LET a == Clamp(IF IsNum(start) THEN start.v ELSE 0, 0, size)
        b == Clamp(IF IsNum(end) THEN end.v + 1 ELSE 0, 0, size)
    IN IF b > a THEN b - a ELSE 0

\* The response for a file of the given size: start = parseInt(parts[0]),
\* end = parts[1] ? parseInt(parts[1]) : size - 1, chunkSize = end - start + 1.
Served(range, size) ==
    IF range.present
    THEN LET start == range.start
             end == IF range.end.k = "none" THEN Num(size - 1) ELSE range.end
         IN [contentRange |-> <<start, end, Num(size)>>,
             contentLength |-> IF IsNum(start) /\ IsNum(end)
                               THEN Num(end.v - start.v + 1) ELSE Nan,
             bodyLength |-> SubarrayLength(start, end, size)]
    ELSE [contentRange |-> <<None, None, None>>, contentLength |-> Num(size),
          bodyLength |-> size]

IdleFile ==
    [pc |-> "idle", path |-> <<>>, range |-> NoRange, served |-> NoServed,
     resp |-> NoResp]

\* The response is returned; the path asked for stays on record.
FRespond(r) ==
    freq' = [IdleFile EXCEPT !.pc = "done", !.path = freq.path, !.resp = r]

\* params, path.join and path.resolve, and the test against the upload
\* root: 403, or fs.access is started.
FileReceive ==
    /\ freq.pc \in {"idle", "done"}
    /\ \E segs \in PathSegments, range \in RangeHeaders :
        LET resolvedPath == PathResolve(UPLOAD_DIR \o segs) IN
        IF Forbidden(resolvedPath)
        THEN freq' = [IdleFile EXCEPT !.pc = "done", !.path = resolvedPath,
                                     !.resp = Resp(403, "forbidden")]
        ELSE freq' = [IdleFile EXCEPT !.pc = "access", !.path = resolvedPath,
                                     !.range = range]
    /\ UNCHANGED <<greq, fileReads, proc, ui>>
    /\ UNCHANGED <<cloud, orm, videos, uploadVars, viewVars, watchVars>>

\* await fs.access: 404 when nothing is there, else fs.stat is started.
FileAccess ==
    /\ freq.pc = "access"
    /\ IF freq.path \in DiskFiles \cup DiskDirs
       THEN freq' = [freq EXCEPT !.pc = "stat"]
       ELSE FRespond(Resp(404, "not_found"))
    /\ UNCHANGED <<greq, fileReads, proc, ui>>
    /\ UNCHANGED <<cloud, orm, videos, uploadVars, viewVars, watchVars>>

\* await fs.stat: fs.readFile is started, or the call throws.
FileStat ==
    /\ freq.pc = "stat"
    /\ \/ freq' = [freq EXCEPT !.pc = "read"]
       \/ FRespond(Resp(500, "server_error"))
    /\ UNCHANGED <<greq, fileReads, proc, ui>>
    /\ UNCHANGED <<cloud, orm, videos, uploadVars, viewVars, watchVars>>

\* await fs.readFile: the bytes of a file, then the 206 for a Range header
\* and the 200 without; a directory or an unreadable file throws.
FileRead ==
    /\ freq.pc = "read"
    /\ \/ /\ freq.path \in DiskFiles
          /\ fileReads' = fileReads \cup {freq.path}
          /\ freq' = [IdleFile EXCEPT !.pc = "done", !.path = freq.path,
                          !.range = freq.range,
                          !.served = Served(freq.range, MediaSize),
                          !.resp = IF freq.range.present
                                   THEN Resp(206, "none") ELSE Resp(200, "none")]
       \/ /\ FRespond(Resp(500, "server_error"))
          /\ UNCHANGED fileReads
    /\ UNCHANGED <<greq, proc, ui>>
    /\ UNCHANGED <<cloud, orm, videos, uploadVars, viewVars, watchVars>>

----
\* ===================== trimVideo, copyVideo, getVideoDuration =====================

\* Bounds: stderr arrives in at most MaxChunks 'data' events of ChunkSize
\* characters each.
MaxChunks == 2
ChunkSize == 300
\* errorOutput.slice(-500)
STDERR_TAIL == 500

Min(a, b) == IF a < b THEN a ELSE b

ToolFns == {"trim", "copy", "probe"}
\* The exit code of a 'close' event: 0, 1, or null after a signal.
ExitCodes == {Num(0), Num(1), None}
\* What ffprobe wrote to stdout: nothing, white space only, a number (0 or
\* 8), a number followed by other text, or text that starts with no number.
Outputs ==
    {[kind |-> "empty", v |-> 0], [kind |-> "blank", v |-> 0],
     [kind |-> "number", v |-> 0], [kind |-> "number", v |-> 8],
     [kind |-> "prefixed", v |-> 8], [kind |-> "text", v |-> 0]}

\* The error string of a failed run.  tail is the number of trailing stderr
\* characters the string carries, None when it carries none.
NoMessage == [kind |-> "none", code |-> None, tail |-> None]
\* `FFmpeg exited with code ${code}: ${errorOutput.slice(-500)}`
TrimExitMessage(code, errorOutput) ==
    [kind |-> "FFmpeg exited with code", code |-> code,
     tail |-> Num(Min(errorOutput, STDERR_TAIL))]
\* `FFmpeg copy failed with code ${code}`
CopyExitMessage(code, errorOutput) ==
    [kind |-> "FFmpeg copy failed with code", code |-> code, tail |-> None]
\* `Failed to start FFmpeg: ${err.message}`
StartMessage == [kind |-> "Failed to start FFmpeg", code |-> None, tail |-> None]

\* The value a promise is resolved with.
Pending == [k |-> "pending", success |-> FALSE, error |-> NoMessage,
            duration |-> None]
Success == [k |-> "result", success |-> TRUE, error |-> NoMessage,
            duration |-> None]
Failure(msg) == [k |-> "result", success |-> FALSE, error |-> msg,
                 duration |-> None]
Duration(d) == [k |-> "duration", success |-> FALSE, error |-> NoMessage,
                duration |-> d]

\* output.trim() is truthy
TrimmedTruthy(out) == out.kind \in {"number", "prefixed", "text"}

\* parseFloat(output.trim()): the number the text starts with, else NaN.
ParseFloat(out) == IF out.kind \in {"number", "prefixed"} THEN Num(out.v) ELSE Nan

\* OnClose for the probe without the test of the exit code.
OnCloseIgnoresCode(fn, code, errorOutput, out) ==
    IF fn = "probe"
    THEN IF TrimmedTruthy(out)
         THEN Duration(IF ParseFloat(out) = Nan THEN None ELSE ParseFloat(out))
         ELSE Duration(None)
    ELSE IF code = Num(0) THEN Success
    ELSE IF fn = "trim" THEN Failure(TrimExitMessage(code, errorOutput))
    ELSE Failure(CopyExitMessage(code, errorOutput))

\* The value the 'close' handler passes to resolve.
OnClose(fn, code, errorOutput, out) ==
    IF fn = "probe"
    THEN IF code = Num(0) /\ TrimmedTruthy(out)
         THEN Duration(IF ParseFloat(out) = Nan THEN None ELSE ParseFloat(out))
         ELSE Duration(None)
    ELSE IF code = Num(0) THEN Success
    ELSE IF fn = "trim" THEN Failure(TrimExitMessage(code, errorOutput))
    ELSE Failure(CopyExitMessage(code, errorOutput))

\* The value the 'error' handler passes to resolve.
OnError(fn) == IF fn = "probe" THEN Duration(None) ELSE Failure(StartMessage)

\* A resolve whose every call replaces the settled value.
ResolveLast(settled, value) == value

\* resolve(value): the first call settles the promise, later calls do
\* nothing.
Resolve(settled, value) == IF settled = Pending THEN value ELSE settled

\* What the upload handler makes of a settled trimVideo / copyVideo:
\* the 500 with result.error || 'Video processing failed', or it goes on.
NoToolResp == [status |-> 0, error |-> "none", message |-> NoMessage]
ToolResponse(result) ==
    IF result.k = "result" /\ ~result.success
    THEN [status |-> 500, error |-> "processing_failed",
          message |-> IF result.error = NoMessage
                      THEN [kind |-> "Video processing failed", code |-> None,
                            tail |-> None]
                      ELSE result.error]
    ELSE NoToolResp

IdleProc ==
    [pc |-> "idle", fn |-> "none", chunks |-> 0, errorOutput |-> 0,
     output |-> [kind |-> "empty", v |-> 0], first |-> "none", code |-> None,
     errorSeen |-> FALSE, closeSeen |-> FALSE, settled |-> Pending,
     resolveCalls |-> 0, response |-> NoToolResp]

\* new Promise(...): spawn and the registration of the handlers.
ProcSpawn ==
    /\ proc.pc \in {"idle", "returned"}
    /\ \E fn \in ToolFns : proc' = [IdleProc EXCEPT !.pc = "running", !.fn = fn]
    /\ UNCHANGED <<greq, freq, fileReads, ui>>
    /\ UNCHANGED <<cloud, orm, videos, uploadVars, viewVars, watchVars>>

\* stderr 'data': errorOutput += data.toString()
ProcStderr ==
    /\ proc.pc \in {"running", "returned"}
    /\ ~proc.closeSeen /\ ~proc.errorSeen
    /\ proc.chunks < MaxChunks
    /\ proc' = [proc EXCEPT !.chunks = proc.chunks + 1,
                            !.errorOutput = proc.errorOutput + ChunkSize]
    /\ UNCHANGED <<greq, freq, fileReads, ui>>
    /\ UNCHANGED <<cloud, orm, videos, uploadVars, viewVars, watchVars>>

\* stdout 'data' of ffprobe: output += data.toString()
ProcStdout ==
    /\ proc.pc \in {"running", "returned"} /\ proc.fn = "probe"
    /\ ~proc.closeSeen /\ ~proc.errorSeen
    /\ proc.output.kind = "empty"
    /\ \E out \in Outputs \ {[kind |-> "empty", v |-> 0]} :
        proc' = [proc EXCEPT !.output = out]
    /\ UNCHANGED <<greq, freq, fileReads, ui>>
    /\ UNCHANGED <<cloud, orm, videos, uploadVars, viewVars, watchVars>>

\* The 'error' event (the process could not be started, or a signal could
\* not be sent to it).
ProcError ==
    /\ proc.pc \in {"running", "returned"}
    /\ ~proc.errorSeen /\ ~proc.closeSeen
    /\ proc' = [proc EXCEPT
                    !.errorSeen = TRUE,
                    !.first = IF proc.first = "none" THEN "error" ELSE proc.first,
                    !.settled = Resolve(proc.settled, OnError(proc.fn)),
                    !.resolveCalls = proc.resolveCalls + 1]
    /\ UNCHANGED <<greq, freq, fileReads, ui>>
    /\ UNCHANGED <<cloud, orm, videos, uploadVars, viewVars, watchVars>>

\* The 'close' event with the exit code; it is the last event of a process
\* and may follow an 'error'.
ProcClose ==
    /\ proc.pc \in {"running", "returned"}
    /\ ~proc.closeSeen
    /\ \E code \in ExitCodes :
        proc' = [proc EXCEPT
                    !.closeSeen = TRUE, !.code = code,
                    !.first = IF proc.first = "none" THEN "close" ELSE proc.first,
                    !.settled = Resolve(proc.settled,
                                        OnClose(proc.fn, code, proc.errorOutput,
                                                proc.output)),
                    !.resolveCalls = proc.resolveCalls + 1]
    /\ UNCHANGED <<greq, freq, fileReads, ui>>
    /\ UNCHANGED <<cloud, orm, videos, uploadVars, viewVars, watchVars>>

\* The await in the upload handler returns with the settled value.
ProcReturn ==
    /\ proc.pc = "running" /\ proc.settled # Pending
    /\ proc' = [proc EXCEPT !.pc = "returned",
                            !.response = ToolResponse(proc.settled)]
    /\ UNCHANGED <<greq, freq, fileReads, ui>>
    /\ UNCHANGED <<cloud, orm, videos, uploadVars, viewVars, watchVars>>

----
\* ===================== Trimmer and the page's trimData =====================

\* Times are in tenths of a second.  The duration the recorder's timer
\* reports (0 when it never ticked), the durations the preview detects, the
\* times a drag can reach and the numbers a text input can hold.
TimerDurations == {0, 30}
DetectedDurations == {10, 30}
DragTimes == {0, 5, 15, 30}
InputValues == {Nan, Num(-5), Num(0), Num(5), Num(15), Num(30), Num(40)}

Max(a, b) == IF a > b THEN a ELSE b

\* Home before a recording is complete: stage 'recording', no Trimmer.
IdleTrimmer ==
    [stage |-> "recording", duration |-> 0, startTime |-> 0, endTime |-> 0,
     isDragging |-> "none", trimData |-> <<0, 0>>]

\* RecorderPanel as mounted: the React state, the refs (timer, streams,
\* chunks, elapsed seconds), the MediaRecorder's state and whether its
\* dataavailable / stop events are still to be delivered.
IdleRecorder ==
    [isRecording |-> FALSE, isPaused |-> FALSE, error |-> FALSE,
     permissionStatus |-> "idle", recorder |-> "none", stopPending |-> FALSE,
     chunks |-> 0, timer |-> FALSE, streams |-> FALSE, elapsed |-> 0,
     completed |-> FALSE]

\* Uploader as mounted: the React state, where handleUpload stands, the
\* progress intervals that are set and not cleared, and the clicks so far.
IdleUploader ==
    [isUploading |-> FALSE, progress |-> 0, error |-> FALSE,
     result |-> FALSE, pc |-> "idle", intervals |-> 0, attempts |-> 0]

IdleUi ==
    [trimmer |-> IdleTrimmer, recorder |-> IdleRecorder,
     uploader |-> IdleUploader]

\* const safeDuration = duration > 0 ? duration : 1
SafeDuration(duration) == IF duration > 0 THEN duration ELSE 10

\* useEffect([startTime, endTime, onTrimChange]): onTrimChange(startTime,
\* endTime), which the page stores as trimData.
NotifyParent(t) == [t EXCEPT !.trimData = <<t.startTime, t.endTime>>]

\* handleRecordingComplete: duration || 10, trimData {0, duration || 10},
\* stage 'preview'; the Trimmer mounts with startTime 0 and endTime
\* safeDuration, and its effects run.
TrimMount ==
    /\ ui.trimmer.stage = "recording"
    /\ \E d \in TimerDurations :
        LET duration == IF d # 0 THEN d ELSE 100 IN
        ui' = [ui EXCEPT !.trimmer =
                NotifyParent([IdleTrimmer EXCEPT
                    !.stage = "preview", !.duration = duration,
                    !.startTime = 0,
                    !.endTime = IF duration > 0 THEN duration
                                ELSE SafeDuration(duration)])]
    /\ UNCHANGED <<greq, freq, fileReads, proc>>
    /\ UNCHANGED <<cloud, orm, videos, uploadVars, viewVars, watchVars>>

\* handleDurationDetected(d) with d > 0: the page stores the duration and
\* bounds trimData's endTime; the Trimmer's effect on a changed duration
\* sets endTime to it and the range is passed up again.
TrimDurationDetected ==
    /\ ui.trimmer.stage = "preview"
    /\ \E d \in DetectedDurations :
        LET t == ui.trimmer
            bounded == IF Min(t.trimData[2], d) # 0 THEN Min(t.trimData[2], d)
                       ELSE d
        IN /\ d > 0
           /\ ui' = [ui EXCEPT !.trimmer =
                IF d # t.duration
                THEN NotifyParent([t EXCEPT !.duration = d, !.endTime = d])
                ELSE [t EXCEPT !.trimData = <<t.trimData[1], bounded>>]]
    /\ UNCHANGED <<greq, freq, fileReads, proc>>
    /\ UNCHANGED <<cloud, orm, videos, uploadVars, viewVars, watchVars>>

\* handleDragStart(handle) and handleDragEnd
TrimDragStartEnd ==
    /\ ui.trimmer.stage = "preview"
    /\ \/ /\ ui.trimmer.isDragging = "none"
          /\ \E h \in {"start", "end"} : ui' = [ui EXCEPT !.trimmer.isDragging = h]
       \/ /\ ui.trimmer.isDragging # "none"
          /\ ui' = [ui EXCEPT !.trimmer.isDragging = "none"]
    /\ UNCHANGED <<greq, freq, fileReads, proc>>
    /\ UNCHANGED <<cloud, orm, videos, uploadVars, viewVars, watchVars>>

\* handleDragMove: the time under the pointer, within [0, safeDuration],
\* kept 0.1 s away from the other handle.
TrimDragMove ==
    /\ ui.trimmer.stage = "preview" /\ ui.trimmer.isDragging # "none"
    /\ \E time \in DragTimes :
        LET t == ui.trimmer IN
        /\ time <= SafeDuration(t.duration)
        /\ ui' = [ui EXCEPT !.trimmer =
                IF t.isDragging = "start"
                THEN NotifyParent([t EXCEPT !.startTime =
                        Max(0, Min(time, t.endTime - 1))])
                ELSE NotifyParent([t EXCEPT !.endTime =
                        Min(SafeDuration(t.duration),
                            Max(time, t.startTime + 1))])]
    /\ UNCHANGED <<greq, freq, fileReads, proc>>
    /\ UNCHANGED <<cloud, orm, videos, uploadVars, viewVars, watchVars>>

\* handleStartInputBlur / handleEndInputBlur: the parsed text is taken when
\* it is a number within the other bound, else the input is reset.
TrimInputBlur ==
    /\ ui.trimmer.stage = "preview"
    /\ \E value \in InputValues :
        LET t == ui.trimmer IN
        \/ ui' = [ui EXCEPT !.trimmer =
                IF IsNum(value) /\ value.v >= 0 /\ value.v < t.endTime
                THEN NotifyParent([t EXCEPT !.startTime = value.v]) ELSE t]
        \/ ui' = [ui EXCEPT !.trimmer =
                IF IsNum(value) /\ value.v > t.startTime
                    /\ value.v <= SafeDuration(t.duration)
                THEN NotifyParent([t EXCEPT !.endTime = value.v]) ELSE t]
    /\ UNCHANGED <<greq, freq, fileReads, proc>>
    /\ UNCHANGED <<cloud, orm, videos, uploadVars, viewVars, watchVars>>

----
\* ===================== RecorderPanel =====================

\* Bound: seconds the timer counts.
MaxElapsed == 2

\* cleanupStreams(): every track stopped, both refs cleared.
CleanupStreams(r) == [r EXCEPT !.streams = FALSE]

\* stopTimer(): clearInterval
StopTimer(r) == [r EXCEPT !.timer = FALSE]

\* mediaRecorder.onstop
OnStop(r) ==
    IF r.chunks = 0
    THEN CleanupStreams([StopTimer(r) EXCEPT !.error = TRUE])
    ELSE CleanupStreams([StopTimer(r) EXCEPT
            !.isRecording = FALSE, !.isPaused = FALSE, !.completed = TRUE])

\* mediaRecorder.onerror
OnError_Recorder(r) == CleanupStreams([r EXCEPT !.error = TRUE])

\* Start Recording is clicked: the state up to the await of getDisplayMedia.
RecStartRequest ==
    /\ ~ui.recorder.isRecording /\ ~ui.recorder.completed
    /\ ui.recorder.permissionStatus # "requesting"
    /\ ui' = [ui EXCEPT !.recorder = [ui.recorder EXCEPT
                    !.error = FALSE, !.permissionStatus = "requesting",
                    !.chunks = 0]]
    /\ UNCHANGED <<greq, freq, fileReads, proc>>
    /\ UNCHANGED <<cloud, orm, videos, uploadVars, viewVars, watchVars>>

\* getDisplayMedia (and getUserMedia) settle: the recorder is built and
\* started and the timer set, or the catch block cleans up.
RecStartSettle ==
    /\ ui.recorder.permissionStatus = "requesting"
    /\ \/ ui' = [ui EXCEPT !.recorder = [ui.recorder EXCEPT
                    !.streams = TRUE, !.recorder = "recording",
                    !.stopPending = FALSE,
                    !.isRecording = TRUE, !.permissionStatus = "granted",
                    !.elapsed = 0, !.timer = TRUE]]
       \/ ui' = [ui EXCEPT !.recorder = CleanupStreams([ui.recorder EXCEPT
                    !.permissionStatus = "denied", !.error = TRUE])]
    /\ UNCHANGED <<greq, freq, fileReads, proc>>
    /\ UNCHANGED <<cloud, orm, videos, uploadVars, viewVars, watchVars>>

\* The interval fires: another second has elapsed.
RecTick ==
    /\ ui.recorder.timer /\ ui.recorder.elapsed < MaxElapsed
    /\ ui' = [ui EXCEPT !.recorder.elapsed = @ + 1]
    /\ UNCHANGED <<greq, freq, fileReads, proc>>
    /\ UNCHANGED <<cloud, orm, videos, uploadVars, viewVars, watchVars>>

\* pauseRecording / resumeRecording
RecPauseResume ==
    /\ ui.recorder.isRecording
    /\ \/ /\ ~ui.recorder.isPaused /\ ui.recorder.recorder = "recording"
          /\ ui' = [ui EXCEPT !.recorder = StopTimer([ui.recorder EXCEPT
                        !.recorder = "paused", !.isPaused = TRUE])]
       \/ /\ ui.recorder.isPaused /\ ui.recorder.recorder = "paused"
          /\ ui' = [ui EXCEPT !.recorder = [ui.recorder EXCEPT
                        !.recorder = "recording", !.isPaused = FALSE,
                        !.timer = TRUE]]
    /\ UNCHANGED <<greq, freq, fileReads, proc>>
    /\ UNCHANGED <<cloud, orm, videos, uploadVars, viewVars, watchVars>>

\* stopRecording, or the browser's 'stop sharing' (the video track's
\* onended): mediaRecorder.stop() on a recorder that is not inactive.
RecStop ==
    /\ ui.recorder.recorder \in {"recording", "paused"}
    /\ ui' = [ui EXCEPT !.recorder = [ui.recorder EXCEPT
                    !.recorder = "inactive", !.stopPending = TRUE]]
    /\ UNCHANGED <<greq, freq, fileReads, proc>>
    /\ UNCHANGED <<cloud, orm, videos, uploadVars, viewVars, watchVars>>

\* The recorder fails: onerror runs, and the recorder goes inactive with its
\* dataavailable and stop events to follow.
RecError ==
    /\ ui.recorder.recorder \in {"recording", "paused"}
    /\ ui' = [ui EXCEPT !.recorder = [OnError_Recorder(ui.recorder) EXCEPT
                    !.recorder = "inactive", !.stopPending = TRUE]]
    /\ UNCHANGED <<greq, freq, fileReads, proc>>
    /\ UNCHANGED <<cloud, orm, videos, uploadVars, viewVars, watchVars>>

\* dataavailable (kept only when event.data.size > 0) and then stop are
\* delivered.
RecStopEvent ==
    /\ ui.recorder.stopPending
    /\ \E size \in {0, 1} :
        ui' = [ui EXCEPT !.recorder =
                OnStop([ui.recorder EXCEPT !.stopPending = FALSE,
                                           !.chunks = @ + size])]
    /\ UNCHANGED <<greq, freq, fileReads, proc>>
    /\ UNCHANGED <<cloud, orm, videos, uploadVars, viewVars, watchVars>>

\* The error message's dismiss button.
RecDismissError ==
    /\ ui.recorder.error /\ ~ui.recorder.completed
    /\ ui' = [ui EXCEPT !.recorder.error = FALSE]
    /\ UNCHANGED <<greq, freq, fileReads, proc>>
    /\ UNCHANGED <<cloud, orm, videos, uploadVars, viewVars, watchVars>>

----
\* ===================== Uploader =====================

\* Bound: clicks on Upload & Process.
MaxAttempts == 2

\* What the fetch of /api/videos/upload-raw can do: resolve with an ok
\* response, resolve with an error response, or reject.
FetchOutcomes == {"ok", "notOk", "reject"}

\* catch and finally of handleUpload
UploadFailed(u) ==
    [u EXCEPT !.error = TRUE, !.isUploading = FALSE, !.pc = "idle"]

\* handleUpload up to the await of fetch: the button is enabled while no
\* upload is running and no result is shown.
HandleUpload ==
    /\ ~ui.uploader.isUploading /\ ~ui.uploader.result
    /\ ui.uploader.attempts < MaxAttempts
    /\ ui' = [ui EXCEPT !.uploader = [ui.uploader EXCEPT
                    !.error = FALSE, !.isUploading = TRUE, !.progress = 0,
                    !.intervals = @ + 1, !.pc = "fetch",
                    !.attempts = @ + 1]]
    /\ UNCHANGED <<greq, freq, fileReads, proc>>
    /\ UNCHANGED <<cloud, orm, videos, uploadVars, viewVars, watchVars>>

\* A progress interval fires: setProgress(prev => Math.min(prev + 10, 90)).
ProgressTick ==
    /\ ui.uploader.intervals > 0
    /\ ui' = [ui EXCEPT !.uploader.progress = Min(@ + 10, 90)]
    /\ UNCHANGED <<greq, freq, fileReads, proc>>
    /\ UNCHANGED <<cloud, orm, videos, uploadVars, viewVars, watchVars>>

\* The fetch settles. A response clears the interval of this call and sets
\* the progress to 100; a rejection goes to catch and finally.
FetchSettle ==
    /\ ui.uploader.pc = "fetch"
    /\ \E outcome \in FetchOutcomes :
        ui' = [ui EXCEPT !.uploader =
                IF outcome = "reject"
                THEN UploadFailed(ui.uploader)
                ELSE [ui.uploader EXCEPT
                        !.intervals = @ - 1, !.progress = 100,
                        !.pc = IF outcome = "ok" THEN "data"
                                                 ELSE "errorData"]]
    /\ UNCHANGED <<greq, freq, fileReads, proc>>
    /\ UNCHANGED <<cloud, orm, videos, uploadVars, viewVars, watchVars>>

\* response.json() settles: the error body is thrown, the data is shown as
\* the result, or the body does not parse.
JsonSettle ==
    /\ ui.uploader.pc \in {"data", "errorData"}
    /\ \E parsed \in BOOLEAN :
        ui' = [ui EXCEPT !.uploader =
                IF parsed /\ ui.uploader.pc = "data"
                THEN [ui.uploader EXCEPT !.result = TRUE,
                        !.isUploading = FALSE, !.pc = "idle"]
                ELSE UploadFailed(ui.uploader)]
    /\ UNCHANGED <<greq, freq, fileReads, proc>>
    /\ UNCHANGED <<cloud, orm, videos, uploadVars, viewVars, watchVars>>

\* The error message's dismiss button.
UploaderDismissError ==
    /\ ui.uploader.error
    /\ ui' = [ui EXCEPT !.uploader.error = FALSE]
    /\ UNCHANGED <<greq, freq, fileReads, proc>>
    /\ UNCHANGED <<cloud, orm, videos, uploadVars, viewVars, watchVars>>

EmptyFiles == [i \in {} |-> 0]


InitOther ==
    /\ greq = IdleGet
    /\ freq = IdleFile
    /\ fileReads = {}
    /\ proc = IdleProc
    /\ ui = IdleUi

Init ==
    /\ cloud \in BOOLEAN
    /\ orm \in Orms
    /\ nextId = 1
    /\ rawFiles = EmptyFiles /\ finalFiles = EmptyFiles /\ bucket = EmptyFiles
    /\ videos = EmptyFiles
    /\ deleteRawCalls = {}
    /\ up = [u \in Uploaders |-> IdleUpload]
    /\ now = 0 /\ ticks = 0 /\ views = {} /\ viewReqs = 0
    /\ vreq = [p \in Viewers |-> IdleView]
    /\ watchSessions = {} /\ watchReqs = 0
    /\ wreq = [p \in Watchers |-> IdleWatch]
    /\ reported = <<>>
    /\ InitOther

Next ==
    \E u \in Uploaders :
        \/ UploadReceive(u)
        \/ UploadSaveRaw(u)
        \/ UploadTool(u)
        \/ UploadAccess(u)
        \/ UploadCleanup(u)
        \/ UploadProbe(u)
        \/ UploadStat(u)
        \/ UploadPublish(u)
        \/ UploadInsert(u)
        \/ UploadFinish(u)

Spec == Init /\ [][Next]_vars

\* Two connections whose uploads differ in nothing but their ids.
NextPair ==
    \E u \in Uploaders :
        \/ UploadReceivePair(u)
        \/ UploadSaveRaw(u)
        \/ UploadTool(u)
        \/ UploadAccess(u)
        \/ UploadCleanup(u)
        \/ UploadProbe(u)
        \/ UploadStat(u)
        \/ UploadPublish(u)
        \/ UploadInsert(u)
        \/ UploadFinish(u)

SpecPair == Init /\ [][NextPair]_vars

\* One connection, one upload let through, the wider inputs.
NextWide ==
    \E u \in {"u1"} :
        \/ UploadReceiveWide(u)
        \/ UploadSaveRaw(u)
        \/ UploadTool(u)
        \/ UploadAccess(u)
        \/ UploadCleanup(u)
        \/ UploadProbe(u)
        \/ UploadStat(u)
        \/ UploadPublish(u)
        \/ UploadInsert(u)
        \/ UploadFinish(u)

SpecWide == Init /\ [][NextWide]_vars

\* The same, with requests that outlast maxDuration.
NextDeadline == NextWide \/ UploadDeadline("u1")

SpecDeadline == Init /\ [][NextDeadline]_vars

\* The analytics endpoints run against a database that holds one uploaded
\* video, stored locally.
UploadedVideo ==
    [durationSeconds |-> 8, sizeBytes |-> 1,
     publicUrl |-> [base |-> "/api/uploads", key |-> 1], viewCount |-> 0]

InitAnalytics ==
    /\ cloud = FALSE
    /\ orm \in Orms
    /\ nextId = 2
    /\ rawFiles = EmptyFiles /\ finalFiles = (1 :> 1) /\ bucket = EmptyFiles
    /\ videos = (1 :> UploadedVideo)
    /\ deleteRawCalls = {1}
    /\ up = [u \in Uploaders |-> IdleUpload]
    /\ now = 0 /\ ticks = 0 /\ views = {} /\ viewReqs = 0
    /\ vreq = [p \in Viewers |-> IdleView]
    /\ watchSessions = {} /\ watchReqs = 0
    /\ wreq = [p \in Watchers |-> IdleWatch]
    /\ reported = <<>>
    /\ InitOther

ViewersQuiet == \A q \in Viewers : vreq[q].pc \in {"idle", "done"}

ViewStep(p) ==
    \/ ViewFindVideo(p)
    \/ ViewFindView(p)
    \/ ViewInsert(p)
    \/ ViewUpdate(p)
    \/ ViewTxn(p)

\* Record-view requests in any interleaving.
NextViews == Tick \/ \E p \in Viewers : ViewReceive(p) \/ ViewStep(p)

SpecViews == InitAnalytics /\ [][NextViews]_vars

\* Record-view requests handled one after the other.
NextViewsSerial ==
    Tick \/ \E p \in Viewers : (ViewersQuiet /\ ViewReceive(p)) \/ ViewStep(p)

SpecViewsSerial == InitAnalytics /\ [][NextViewsSerial]_vars

WatchersQuiet == \A q \in Watchers : wreq[q].pc \in {"idle", "done"}

WatchStep(p) ==
    \/ WatchFindVideo(p)
    \/ WatchFindSession(p)
    \/ WatchUpdate(p)
    \/ WatchInsert(p)

\* Watch-progress requests in any interleaving.
NextWatch == \E p \in Watchers : WatchReceive(p) \/ WatchStep(p)

SpecWatch == InitAnalytics /\ [][NextWatch]_vars

\* Watch-progress requests handled one after the other.
NextWatchSerial ==
    \E p \in Watchers : (WatchersQuiet /\ WatchReceive(p)) \/ WatchStep(p)

SpecWatchSerial == InitAnalytics /\ [][NextWatchSerial]_vars

\* One record-view client and one watch-progress client side by side, the
\* clock standing still.
NextFrame ==
    \/ \E p \in {"a"} : ViewReceive(p) \/ ViewStep(p)
    \/ \E p \in {"b"} : WatchReceiveFrame(p) \/ WatchStep(p)

SpecFrame == InitAnalytics /\ [][NextFrame]_vars

\* Watch-progress requests in any interleaving beside a client that reads
\* the video's statistics.
NextStats ==
    \/ \E p \in Watchers : WatchReceiveStats(p) \/ WatchStep(p)
    \/ GetReceive \/ GetFindVideo \/ GetAggregate

SpecStats == InitAnalytics /\ [][NextStats]_vars

\* Two progress reports of one player, the second further on.
CountBodies ==
    {[sessionId |-> "s1", watchedSeconds |-> Num(5), videoDuration |-> Num(10)],
     [sessionId |-> "s1", watchedSeconds |-> Num(8), videoDuration |-> Num(10)]}

WatchReceiveCount(p) == WatchReceiveFrom(p, CountBodies)

\* A record-view client beside requests of one other kind: uploads of other
\* videos, or watch-progress reports, or reads of the statistics.  The kind
\* is settled by the first such request.
NextCount ==
    \/ \E u \in {"u1"} :
        \/ (wreq["b"].pc = "idle" /\ greq.pc = "idle" /\ UploadReceivePair(u))
        \/ UploadSaveRaw(u) \/ UploadTool(u)
        \/ UploadAccess(u) \/ UploadCleanup(u) \/ UploadProbe(u)
        \/ UploadStat(u) \/ UploadPublish(u) \/ UploadInsert(u)
        \/ UploadFinish(u)
    \/ \E p \in {"a"} : ViewReceive(p) \/ ViewStep(p)
    \/ \E p \in {"b"} :
        \/ (up["u1"].pc = "idle" /\ greq.pc = "idle" /\ WatchReceiveCount(p))
        \/ WatchStep(p)
    \/ (up["u1"].pc = "idle" /\ wreq["b"].pc = "idle" /\ GetReceive)
    \/ GetFindVideo \/ GetAggregate

SpecCount == InitAnalytics /\ [][NextCount]_vars

\* The reports of two players of the video.
NextPlayer == \E p \in Watchers : WatchReceivePlayer(p) \/ WatchStep(p)

SpecPlayer == InitAnalytics /\ [][NextPlayer]_vars

\* The trim UI of one recording.
NextTrim ==
    \/ TrimMount \/ TrimDurationDetected \/ TrimDragStartEnd \/ TrimDragMove
    \/ TrimInputBlur

SpecTrim == Init /\ [][NextTrim]_vars

\* The recorder panel of one recording; every event of the MediaRecorder
\* that is pending is delivered.
NextRecorder ==
    \/ RecStartRequest \/ RecStartSettle \/ RecTick \/ RecPauseResume
    \/ RecStop \/ RecError \/ RecStopEvent \/ RecDismissError

SpecRecorder ==
    Init /\ [][NextRecorder]_vars /\ WF_vars(RecStopEvent)

\* The uploader of one recording.
NextUploader ==
    \/ HandleUpload \/ ProgressTick \/ FetchSettle \/ JsonSettle
    \/ UploaderDismissError

SpecUploader == Init /\ [][NextUploader]_vars

\* Calls of trimVideo, copyVideo and getVideoDuration, one at a time, with
\* the events of their child processes.
NextProc ==
    ProcSpawn \/ ProcStderr \/ ProcStdout \/ ProcError \/ ProcClose \/ ProcReturn

SpecProc == Init /\ [][NextProc]_vars

\* Requests to the file-serving route, one at a time.
NextFiles == FileReceive \/ FileAccess \/ FileStat \/ FileRead

SpecFiles == Init /\ [][NextFiles]_vars

\* One client at a time, its reports carrying numbers of either sign.
NextWatchSigned ==
    \E p \in Watchers :
        (WatchersQuiet /\ WatchReceiveSigned(p)) \/ WatchStep(p)

SpecWatchSigned == InitAnalytics /\ [][NextWatchSigned]_vars

----
\* ===================== upload claims =====================

\* C1 (as claimed): a Video row exists for an id only if the final bytes of
\* that id are stored in the active backend (the bucket object when the
\* remote backend is configured, the local final file otherwise).
C1_RowOnlyAfterPublish == \A id \in DOMAIN videos : VideoExists(id)

\* C2 (as claimed): every failure response of an upload whose raw scratch file
\* was written is preceded by a call of deleteRawVideo for its id.  The raw
\* file is only ever removed by deleteRawVideo, so a raw file that is still
\* there at a 500 must have had deleteRawVideo called (and fail) on it.
C2_FailureExitsDeleteRaw ==
    \A u \in Uploaders :
        (up[u].pc = "done" /\ up[u].resp.status = 500
            /\ up[u].videoId \in DOMAIN rawFiles)
        => up[u].videoId \in deleteRawCalls

\* C3 (as claimed): when a request whose tool step failed has returned, no
\* Video row exists for its id and its raw scratch file no longer exists.
C3_ToolFailureLeavesNothing ==
    \A u \in Uploaders :
        (up[u].pc = "done" /\ up[u].result = "failed")
        => /\ up[u].videoId \notin DOMAIN videos
           /\ up[u].videoId \notin DOMAIN rawFiles

\* C3 (amended): a request whose tool step failed returns processing_failed
\* with no Video row for its id and with deleteRawVideo called for it; the raw
\* scratch file is gone unless that unlink failed and left the directory as
\* it was.
C3_ToolFailureCleansUp ==
    [][\A u \in Uploaders :
        (up[u].pc # "done" /\ up'[u].pc = "done" /\ up'[u].result = "failed")
        => /\ up'[u].resp = Resp(500, "processing_failed")
           /\ up'[u].videoId \notin DOMAIN videos'
           /\ up'[u].videoId \in deleteRawCalls'
           /\ \/ up'[u].videoId \notin DOMAIN rawFiles'
              \/ rawFiles' = rawFiles]_vars

\* C3 witness: a tool failure has been answered and the raw file is gone.
C3_Witness ==
    \E u \in Uploaders :
        /\ up[u].pc = "done" /\ up[u].result = "failed"
        /\ up[u].resp = Resp(500, "processing_failed")
        /\ up[u].videoId \in deleteRawCalls
        /\ up[u].videoId \notin DOMAIN rawFiles

----
\* ===================== record-view claims =====================

ViewsOf(id) == {r \in views : r.videoId = id}
ViewsOfPair(rows, vid, sid) == {r \in rows : r.videoId = vid /\ r.sessionId = sid}

\* C4 (as claimed): whenever no record-view request stands between its two
\* writes, every video's viewCount equals the number of its View rows.
C4_ViewCountMatchesRows ==
    (\A p \in Viewers : vreq[p].pc # "update")
    => \A id \in DOMAIN videos : videos[id].viewCount = Cardinality(ViewsOf(id))

\* C5 (as claimed): no two View rows of one (videoId, sessionId) are created
\* less than 24 hours apart, in any interleaving of the requests.
C5_OneViewPerWindow ==
    \A r1 \in views, r2 \in views :
        (r1 # r2 /\ r1.videoId = r2.videoId /\ r1.sessionId = r2.sessionId
            /\ r1.createdAt <= r2.createdAt)
        => r2.createdAt - r1.createdAt >= 24

\* C6: with requests handled one after the other, a request answered
\* {ok:true} has raised the video's viewCount by exactly 1 and added exactly
\* one View row (its own); one answered deduplicated has left viewCount and
\* the View rows as they were and follows an earlier View of the same pair;
\* and a request answered less than 24 hours after a View of its pair was
\* created is answered deduplicated.
C6_SecondViewDeduplicated ==
    [][\A p \in Viewers :
        (vreq[p].pc # "done" /\ vreq'[p].pc = "done") =>
        LET vid == vreq[p].videoId
            sid == vreq[p].sessionId
            mine == {r \in views' : r.id = vreq[p].n}
        IN
        /\ vreq'[p].resp = Resp(200, "ok") =>
            /\ videos'[vid].viewCount = vreq[p].count0 + 1
            /\ Cardinality(views') = vreq[p].rows0 + 1
            /\ Cardinality(mine) = 1
            /\ \A r \in mine : r.videoId = vid /\ r.sessionId = sid
        /\ vreq'[p].resp = Resp(200, "deduplicated") =>
            /\ videos'[vid].viewCount = vreq[p].count0
            /\ Cardinality(views') = vreq[p].rows0
            /\ views' = views
            /\ mine = {}
            /\ ViewsOfPair(views, vid, sid) # {}
        /\ (/\ vreq'[p].resp.status = 200
            /\ \E r \in ViewsOfPair(views, vid, sid) :
                    r.id # vreq[p].n /\ now - r.createdAt < 24)
           => vreq'[p].resp = Resp(200, "deduplicated")]_vars

\* C6 witness: one request was answered {ok:true}, the next one for the same
\* pair deduplicated, and the video has one view and one View row.
C6_Witness ==
    /\ vreq["a"].resp = Resp(200, "ok") /\ vreq["a"].pc = "done"
    /\ vreq["b"].resp = Resp(200, "deduplicated") /\ vreq["b"].pc = "done"
    /\ videos[1].viewCount = 1
    /\ Cardinality(views) = 1

\* C7: with requests handled one after the other, the cutoff is the time of
\* the request minus 24 hours; a request is answered {ok:true}, with a new
\* View row and viewCount raised, exactly when every earlier View of its pair
\* is older than the cutoff, and deduplicated exactly when one has
\* createdAt >= cutoff, the boundary included.
C7_WindowElapsedCountsAgain ==
    [][\A p \in Viewers :
        LET vid == vreq[p].videoId
            sid == vreq[p].sessionId
            earlier == {r \in ViewsOfPair(views, vid, sid) : r.id # vreq[p].n}
        IN
        /\ (vreq[p].pc = "findVideo" /\ vreq'[p].pc = "findView")
            => vreq'[p].cutoff = now - 24
        /\ (vreq[p].pc # "done" /\ vreq'[p].pc = "done"
                /\ vreq'[p].resp = Resp(200, "ok"))
            => /\ \A r \in earlier : r.createdAt < vreq[p].cutoff
               /\ \E r \in views' : r.id = vreq[p].n /\ r.createdAt >= vreq[p].cutoff + 24
               /\ videos'[vid].viewCount = vreq[p].count0 + 1
        /\ (vreq[p].pc # "done" /\ vreq'[p].pc = "done"
                /\ vreq'[p].resp = Resp(200, "deduplicated"))
            => /\ \E r \in earlier : r.createdAt >= vreq[p].cutoff
               /\ views' = views /\ videos' = videos]_vars

\* C7 witness: a pair has a View row and a second one created more than 24
\* hours later, both counted.
C7_Witness ==
    /\ \E r1 \in views, r2 \in views :
        /\ r1.videoId = r2.videoId /\ r1.sessionId = r2.sessionId
        /\ r2.createdAt - r1.createdAt > 24
    /\ videos[1].viewCount = 2
    /\ \E p \in Viewers : vreq[p].pc = "done" /\ vreq[p].resp = Resp(200, "ok")

----
\* ===================== watch-progress claims =====================

\* C8 (as claimed): no step lowers the maxWatchedSeconds of a WatchSession
\* row, in any interleaving of the requests.
C8_MaxWatchedNeverDecreases ==
    [][\A r \in watchSessions : \A r2 \in watchSessions' :
        r2.id = r.id => r2.maxWatchedSeconds >= r.maxWatchedSeconds]_vars

\* The reports answered ok so far for one (videoId, sessionId).
ReportsOf(vid, sid) ==
    {i \in 1..Len(reported) : reported[i][1] = vid /\ reported[i][2] = sid}

\* pct is min(100, seconds / duration * 100), for a positive duration.
IsPercentageOf(pct, seconds, duration) ==
    IF seconds >= duration THEN pct = <<100, 1>>
    ELSE pct[2] > 0 /\ pct[1] * duration = seconds * 100 * pct[2]

\* C9: with requests handled one after the other, a pair with a report
\* answered ok has a WatchSession row, and every row of the pair stores the
\* greatest watchedSeconds reported so far together with the percentage
\* computed by the first report that carried that greatest value.
C9_StoredMaxIsGreatestReported ==
    \A i \in 1..Len(reported) :
        LET vid == reported[i][1]
            sid == reported[i][2]
            mine == ReportsOf(vid, sid)
            best == CHOOSE j \in mine :
                        /\ \A k \in mine : reported[k][3] <= reported[j][3]
                        /\ \A k \in mine : reported[k][3] = reported[j][3] => j <= k
            rows == {r \in watchSessions : r.videoId = vid /\ r.sessionId = sid}
        IN /\ rows # {}
           /\ \A r \in rows :
                /\ r.maxWatchedSeconds = reported[best][3]
                /\ IsPercentageOf(r.watchedPercentage, reported[best][3],
                                  reported[best][4])

\* C9 witness: session s1 reported 5, then 12, then 8 seconds; its row holds
\* 12 and the percentage of 12.
C9_Witness ==
    /\ Len(reported) = 3
    /\ \A i \in 1..3 : reported[i][1] = 1 /\ reported[i][2] = "s1"
    /\ reported[1][3] = 5 /\ reported[2][3] = 12 /\ reported[3][3] = 8
    /\ reported[2][4] = 20
    /\ \E r \in watchSessions :
        r.sessionId = "s1" /\ r.maxWatchedSeconds = 12
            /\ r.watchedPercentage = <<60, 1>>
    /\ WatchersQuiet

\* C10 (as claimed): every WatchSession row's watchedPercentage is
\* min(100, maxWatchedSeconds / durationSeconds * 100) of the row's own
\* stored maxWatchedSeconds and durationSeconds.
C10_PercentageMatchesRow ==
    \A r \in watchSessions :
        IsPercentageOf(r.watchedPercentage, r.maxWatchedSeconds,
                       r.durationSeconds)

----
\* ===================== claims on the numbers of a request =====================

InRange(pct) == pct[1] >= 0 /\ pct[1] <= 100 * pct[2]

\* C11: every stored WatchSession row and every ok watch-progress response
\* carries a watchedPercentage between 0 and 100 inclusive, whatever the sign
\* of the accepted watchedSeconds and videoDuration.
C11_PercentageWithinRange ==
    /\ \A r \in watchSessions : InRange(r.watchedPercentage)
    /\ \A p \in Watchers :
        (wreq[p].pc = "done" /\ wreq[p].resp.status = 200) => InRange(wreq[p].pct)

\* A step on which connection u reads a new request.
Receives(u) == up[u].pc \in {"idle", "done"} /\ up'[u] # up[u]

\* C12: a request whose file is larger than MAX_UPLOAD_BYTES is answered 413
\* file_too_large at once: it gets no id, and neither the Video table nor the
\* raw scratch directory changes.
C12_OversizeRejected ==
    [][\A u \in Uploaders :
        (Receives(u) /\ up'[u].file.present
             /\ up'[u].file.size > MAX_UPLOAD_MB * 1024 * 1024)
        => /\ up'[u].pc = "done"
           /\ up'[u].resp = Resp(413, "file_too_large")
           /\ up'[u].videoId = 0
           /\ videos' = videos /\ rawFiles' = rawFiles /\ nextId' = nextId]_vars

C12_Witness ==
    \E u \in Uploaders :
        /\ up[u].pc = "done" /\ up[u].file.present
        /\ up[u].file.size > MAX_UPLOAD_MB * 1024 * 1024
        /\ up[u].resp.status = 413

NotVideoFile(f) == f.present /\ ~f.videoMime /\ ~f.webmName

\* C13 as stated: a file whose MIME type is not video/* and whose name does
\* not end in .webm is always answered 400 invalid_type.
C13_NonVideoAlwaysInvalidType ==
    \A u \in Uploaders :
        NotVideoFile(up[u].file)
        => up[u].pc = "done" /\ up[u].resp = Resp(400, "invalid_type")

\* C13: a file within the size limit whose MIME type is not video/* and whose
\* name does not end in .webm is answered 400 invalid_type; a larger one is
\* answered 413 file_too_large, the size being tested first.
C13_NonVideoWithinLimitInvalidType ==
    \A u \in Uploaders :
        NotVideoFile(up[u].file)
        => /\ up[u].pc = "done"
           /\ up[u].resp = IF up[u].file.size <= MAX_UPLOAD_MB * 1024 * 1024
                            THEN Resp(400, "invalid_type")
                            ELSE Resp(413, "file_too_large")

C13_Witness ==
    \E u \in Uploaders :
        /\ NotVideoFile(up[u].file)
        /\ up[u].file.size <= MAX_UPLOAD_MB * 1024 * 1024
        /\ up[u].pc = "done" /\ up[u].resp = Resp(400, "invalid_type")

\* The request's trim range as the form gave it: startTime absent counts as
\* 0, and a range needs an endTime and numbers in both fields.
TrimRequested(startField, endField) ==
    /\ endField.k = "num"
    /\ startField.k \in {"none", "num"}
    /\ LET st == IF startField.k = "none" THEN 0 ELSE startField.v
       IN st >= 0 /\ endField.v >= 0 /\ endField.v > st

ToolInvoked(u) ==
    up[u].pc \in {"access", "cleanupTool", "cleanupMissing", "probe"}

\* C14: a request that passed validation has invoked exactly one tool once
\* the tool step is over: trim when startTime (0 when absent) and endTime are
\* numbers, non-negative, and endTime > startTime; copy in every other case
\* (no endTime, unparseable text, negative startTime, endTime <= startTime).
\* Before that step no tool has been invoked.
C14_TrimExactlyWhenRangeValid ==
    \A u \in Uploaders :
        /\ ToolInvoked(u)
           => up[u].tool = IF TrimRequested(up[u].startTimeStr, up[u].endTime)
                           THEN "trim" ELSE "copy"
        /\ up[u].pc \in {"saveRaw", "tool"} => up[u].tool = "none"

C14_Witness ==
    /\ up["u1"].pc = "access" /\ up["u1"].tool = "copy"
    /\ up["u1"].startTimeStr = Num(-1) /\ up["u1"].endTime = Num(10)

\* C16: when getVideoDuration returns null the request goes on, and the
\* duration it will store and return is endTime - startTime when both fields
\* were given as numbers (startTime = 0 included), 10 otherwise.
C16_FallbackDuration ==
    [][\A u \in Uploaders :
        (up[u].pc = "probe" /\ up'[u].pc # "probe" /\ up'[u].probed = None)
        => /\ up'[u].pc = "stat"
           /\ up'[u].duration =
                IF up[u].startTimeStr.k = "num" /\ up[u].endTime.k = "num"
                THEN Num(up[u].endTime.v - up[u].startTimeStr.v)
                ELSE Num(10)]_vars

\* C17: every Video row has a durationSeconds greater than 0.
C17_DurationPositive ==
    \A id \in DOMAIN videos : videos[id].durationSeconds > 0

----
\* ===================== claims on the later pipeline steps =====================

C18_NoRowForUnpublishedBytes ==
    [][\A u \in Uploaders :
        LET id == up[u].videoId IN
        /\ (cloud /\ up[u].pc = "publish" /\ up'[u].pc = "done")
           => /\ up'[u].resp = Resp(500, "server_error")
              /\ id \notin DOMAIN videos'
        /\ (cloud /\ id \notin DOMAIN videos /\ id \in DOMAIN videos')
           => id \in DOMAIN bucket']_vars

\* C19: a request answered 201 has its Video row, keyed by the returned
\* videoId, with viewCount 0 and the returned publicUrl, duration and
\* sizeBytes; a request answered anything else has no Video row.
C19_CreatedMatchesRow ==
    \A u \in Uploaders :
        up[u].pc = "done"
        => IF up[u].resp.status = 201
           THEN /\ up[u].videoId \in DOMAIN videos
                /\ videos[up[u].videoId] =
                      [durationSeconds |-> up[u].duration.v,
                       sizeBytes |-> up[u].sizeBytes,
                       publicUrl |-> up[u].publicUrl, viewCount |-> 0]
           ELSE up[u].videoId \notin DOMAIN videos

C19_Witness ==
    \E u \in Uploaders :
        /\ up[u].pc = "done" /\ up[u].resp.status = 201
        /\ up[u].videoId \in DOMAIN videos
        /\ up[u].duration = Num(8) /\ up[u].sizeBytes = 1

C24_DeadlineFailsUpload ==
    \A u \in Uploaders :
        up[u].deadline = "passed"
        => /\ up[u].videoId \notin DOMAIN videos
           /\ up[u].pc = "done" => up[u].videoId \in deleteRawCalls

----
\* ===================== claims on the analytics endpoints =====================

\* The tables the analytics requests write.
AnalyticsTablesUnchanged ==
    views' = views /\ watchSessions' = watchSessions /\ videos' = videos

\* C21: a record-view request is answered 400 missing_session_id unless it
\* carries a sessionId, a watch-progress request 400 missing_fields unless it
\* carries all three fields, and either request 404 not_found when its video
\* lookup finds no video (500 when the lookup itself throws); on every step
\* of such a request the View, WatchSession and Video tables stay as they
\* are.
C21_RejectionsWriteNothing ==
    [][/\ \A p \in Viewers :
            /\ (vreq[p].pc \in {"idle", "done"} /\ vreq'[p] # vreq[p])
               => /\ \/ vreq'[p].pc = "findVideo" /\ vreq'[p].sessionId # ""
                     \/ /\ vreq'[p].pc = "done"
                        /\ vreq'[p].resp = Resp(400, "missing_session_id")
                  /\ AnalyticsTablesUnchanged
            /\ (vreq[p].pc = "findVideo" /\ vreq'[p] # vreq[p]
                    /\ vreq[p].videoId \notin DOMAIN videos)
               => /\ vreq'[p].pc = "done"
                  /\ vreq'[p].resp \in {Resp(404, "not_found"),
                                        Resp(500, "server_error")}
                  /\ AnalyticsTablesUnchanged
       /\ \A p \in Watchers :
            /\ (wreq[p].pc \in {"idle", "done"} /\ wreq'[p] # wreq[p])
               => /\ IF wreq'[p].body.sessionId = ""
                        \/ wreq'[p].body.watchedSeconds = None
                        \/ wreq'[p].body.videoDuration \in {None, Num(0)}
                     THEN /\ wreq'[p].pc = "done"
                          /\ wreq'[p].resp = Resp(400, "missing_fields")
                     ELSE wreq'[p].pc = "findVideo"
                  /\ AnalyticsTablesUnchanged
            /\ (wreq[p].pc = "findVideo" /\ wreq'[p] # wreq[p]
                    /\ wreq[p].videoId \notin DOMAIN videos)
               => /\ wreq'[p].pc = "done"
                  /\ wreq'[p].resp \in {Resp(404, "not_found"),
                                        Resp(500, "server_error")}
                  /\ AnalyticsTablesUnchanged]_vars

\* Both kinds of rejection have happened while rows were in the tables.
C21_Witness ==
    /\ vreq["a"].pc = "done" /\ vreq["a"].resp = Resp(404, "not_found")
    /\ wreq["b"].pc = "done" /\ wreq["b"].resp = Resp(400, "missing_fields")
    /\ wreq["b"].body.videoDuration = None
    /\ views # {} /\ watchSessions # {}

RowsOfVideo(vid) == {r \in watchSessions : r.videoId = vid}

RECURSIVE ScaledSum(_, _)
\* The sum of watchedPercentage * m over rows, m a multiple of every
\* denominator.
ScaledSum(rows, m) ==
    IF rows = {} THEN 0
    ELSE LET r == CHOOSE r \in rows : TRUE
         IN r.watchedPercentage[1] * (m \div r.watchedPercentage[2])
                + ScaledSum(rows \ {r}, m)

RECURSIVE DenProduct(_)
DenProduct(rows) ==
    IF rows = {} THEN 1
    ELSE LET r == CHOOSE r \in rows : TRUE
         IN r.watchedPercentage[2] * DenProduct(rows \ {r})

\* avg times the number of rows is the sum of their percentages.
IsMeanOf(avg, rows) ==
    LET m == DenProduct(rows)
    IN avg[1] * Cardinality(rows) * m = ScaledSum(rows, m) * avg[2]

\* C22: the average in a 200 of the statistics endpoint is 0 when the video
\* has no WatchSession rows at the time of the aggregate, and otherwise the
\* arithmetic mean of watchedPercentage over all of the video's rows, two
\* rows of one session counting twice.
C22_AverageIsMeanOfRows ==
    [][(greq.pc = "aggregate" /\ greq'.pc = "done"
            /\ greq'.resp.status = 200)
       => IF RowsOfVideo(greq.videoId) = {}
          THEN greq'.avg = <<0, 1>>
          ELSE IsMeanOf(greq'.avg, RowsOfVideo(greq.videoId))]_vars

\* The average was read over two rows of session s1 and one of s2.
C22_Witness ==
    /\ greq.pc = "done" /\ greq.resp.status = 200
    /\ greq.avg = <<155, 3>>
    /\ Cardinality({r \in watchSessions : r.sessionId = "s1"}) = 2

----
\* ===================== claims on the file-serving route =====================

\* The directory root holds the path: its names are the path's first names.
IsWithin(path, root) ==
    Len(root) <= Len(path) /\ SubSeq(path, 1, Len(root)) = root

UploadRoot == <<AppName, UploadsName>>

\* C23: a request whose path resolves to a place outside the upload root, a
\* sibling directory whose name begins with the root's name included, is
\* answered 403, and readFile is never called on such a path.
C23_OutsideRootForbidden ==
    /\ \A f \in fileReads : IsWithin(f, UploadRoot)
    /\ (freq.pc # "idle" /\ ~IsWithin(freq.path, UploadRoot))
       => freq.pc = "done" /\ freq.resp = Resp(403, "forbidden")

----
\* ===================== claims on concurrent requests =====================

\* C25: once no watch-progress request is in flight, every pair with a
\* report answered ok has rows, and the greatest maxWatchedSeconds among
\* them is the greatest watchedSeconds reported for the pair.
C25_ConcurrentReportsKeepGreatest ==
    WatchersQuiet
    => \A i \in 1..Len(reported) :
        LET vid == reported[i][1]
            sid == reported[i][2]
            rows == {r \in watchSessions : r.videoId = vid /\ r.sessionId = sid}
        IN /\ rows # {}
           /\ \E r \in rows :
                /\ \A r2 \in rows : r2.maxWatchedSeconds <= r.maxWatchedSeconds
                /\ \A k \in ReportsOf(vid, sid) :
                        reported[k][3] <= r.maxWatchedSeconds
                /\ \E k \in ReportsOf(vid, sid) :
                        reported[k][3] = r.maxWatchedSeconds

\* What a directory or table holds under id i.
Entry(f, i) == IF i \in DOMAIN f THEN <<f[i]>> ELSE <<>>

AllIds ==
    DOMAIN rawFiles \cup DOMAIN finalFiles \cup DOMAIN bucket \cup DOMAIN videos
        \cup DOMAIN rawFiles' \cup DOMAIN finalFiles' \cup DOMAIN bucket'
        \cup DOMAIN videos'

\* C26: no two requests have the same video id, and a step of one request
\* leaves the raw file, the final file, the bucket object and the Video row
\* of every other id as they are.
C26_UploadsKeepApart ==
    [][/\ \A u, v \in Uploaders :
            (u # v /\ up'[u].videoId # 0) => up'[u].videoId # up'[v].videoId
       /\ \A u \in Uploaders :
            up'[u] # up[u]
            => \A i \in AllIds \ {up[u].videoId, up'[u].videoId} :
                /\ Entry(rawFiles', i) = Entry(rawFiles, i)
                /\ Entry(finalFiles', i) = Entry(finalFiles, i)
                /\ Entry(bucket', i) = Entry(bucket, i)
                /\ Entry(videos', i) = Entry(videos, i)]_vars

\* Two requests in flight at once, each with its raw file written.
C26_Witness ==
    /\ up["u1"].pc = "tool" /\ up["u2"].pc = "cleanupTool"
    /\ up["u1"].videoId \in DOMAIN rawFiles
    /\ up["u2"].videoId \in DOMAIN rawFiles

----
\* ===================== claims on the external tools =====================

\* C27: the 500 processing_failed that follows a trim or a copy whose
\* process closed with a non-zero exit code carries the tail of the tool's
\* stderr: its last 500 characters, or all of it when it is shorter.
C27_FailureCarriesStderrTail ==
    (proc.pc = "returned" /\ proc.fn \in {"trim", "copy"}
        /\ proc.first = "close" /\ proc.code # Num(0))
    => /\ proc.response.status = 500
       /\ proc.response.error = "processing_failed"
       /\ proc.response.message.tail
            = Num(IF proc.errorOutput <= 500 THEN proc.errorOutput ELSE 500)

\* C28: a trimVideo or copyVideo call is settled by its first event and
\* stays so: success:true exactly when that event is a 'close' with exit code
\* 0, success:false with an error string otherwise; once an event has been
\* delivered the promise is resolved, never pending or rejected.
C28_ToolSettlesOnceByFirstEvent ==
    [][(proc'.fn \in {"trim", "copy"} /\ proc'.pc # "idle")
       => /\ proc'.first = "none" <=> proc'.settled = Pending
          /\ proc'.first # "none"
             => /\ proc'.settled.k = "result"
                /\ proc'.settled.success
                     <=> (proc'.first = "close" /\ proc'.code = Num(0))
                /\ ~proc'.settled.success
                     => proc'.settled.error.kind # "none"
          /\ (proc.pc # "idle" /\ proc.settled # Pending
                /\ ~(proc.pc = "returned" /\ proc'.pc = "running"))
             => proc'.settled = proc.settled]_vars

\* An 'error' was delivered first and a 'close' with exit code 0 after it.
C28_Witness ==
    /\ proc.fn = "trim" /\ proc.first = "error"
    /\ proc.closeSeen /\ proc.code = Num(0)
    /\ proc.resolveCalls = 2 /\ ~proc.settled.success

\* C29: a getVideoDuration call is settled by its first event: with a
\* number only when that event is a 'close' with exit code 0 and the output
\* starts with a number, with null on any other exit code, on empty or blank
\* output, on output that starts with no number and on an 'error'.
C29_ProbeNumberOrNull ==
    (proc.fn = "probe" /\ proc.pc # "idle")
    => /\ proc.first = "none" <=> proc.settled = Pending
       /\ proc.first # "none"
          => /\ proc.settled.k = "duration"
             /\ IF proc.first = "close" /\ proc.code = Num(0)
                    /\ proc.output.kind \in {"number", "prefixed"}
                THEN proc.settled.duration = Num(proc.output.v)
                ELSE proc.settled.duration = None

C29_Witness ==
    /\ proc.fn = "probe" /\ proc.pc = "returned"
    /\ proc.first = "close" /\ proc.code = Num(0)
    /\ proc.output.kind = "text" /\ proc.settled.duration = None

----
\* ===================== claims on serial watch reports =====================

RowsOfPair(rows, vid, sid) == {r \in rows : r.videoId = vid /\ r.sessionId = sid}

\* C30: with watch-progress requests handled one after the other, every
\* (videoId, sessionId) pair has at most one WatchSession row after every
\* step, and a step on a pair that already has a row leaves that row in
\* place (updated or untouched) and adds none.
C30_OneRowPerPairSerial ==
    [][\A r \in watchSessions \cup watchSessions' :
        LET before == RowsOfPair(watchSessions, r.videoId, r.sessionId)
            after == RowsOfPair(watchSessions', r.videoId, r.sessionId)
        IN /\ Cardinality(after) <= 1
           /\ before # {} => {x.id : x \in after} = {x.id : x \in before}]_vars

\* Session s1 reported 5 and then 12 seconds, both answered ok; its one row
\* was inserted by the first report and updated by the second.
C30_Witness ==
    /\ Len(reported) = 2
    /\ \A i \in 1..2 : reported[i][1] = 1 /\ reported[i][2] = "s1"
    /\ reported[1][3] = 5 /\ reported[2][3] = 12
    /\ Cardinality(RowsOfPair(watchSessions, 1, "s1")) = 1
    /\ \A r \in RowsOfPair(watchSessions, 1, "s1") : r.maxWatchedSeconds = 12

----
\* ===================== claims on the view count =====================

\* C31: a Video row is created with viewCount 0; after that its viewCount is
\* never negative, never decreases, and changes only in the step in which a
\* record-view request for that video is answered ok without deduplicated.
\* Uploads of other videos, watch-progress requests, deduplicated views and
\* GET requests leave it as it is.
C31_ViewCountChangedOnlyByViews ==
    [][\A id \in DOMAIN videos' :
        IF id \notin DOMAIN videos THEN videos'[id].viewCount = 0
        ELSE /\ videos'[id].viewCount >= 0
             /\ videos'[id].viewCount >= videos[id].viewCount
             /\ videos'[id].viewCount # videos[id].viewCount
                => \E p \in Viewers :
                    /\ vreq[p].videoId = id
                    /\ vreq[p].pc \notin {"idle", "done"}
                    /\ vreq'[p].pc = "done"
                    /\ vreq'[p].resp = Resp(200, "ok")]_vars

\* Video 1 was viewed once and then a second view of the same session was
\* deduplicated, while video 2 was uploaded.
C31_Witness ==
    /\ videos[1].viewCount = 1
    /\ vreq["a"].resp = Resp(200, "deduplicated")
    /\ 2 \in DOMAIN videos /\ videos[2].viewCount = 0
    /\ up["u1"].resp.status = 201

----
\* ===================== claims on a failed insert =====================

\* C32: when the insert of the Video row fails while the final bytes are
\* published (the bucket object in cloud mode, the local final file
\* otherwise), the request is answered 500 server_error, the id has no Video
\* row, and the published bytes are still there, unchanged.
C32_FailedInsertLeavesPublishedBytes ==
    [][\A u \in Uploaders :
        LET id == up[u].videoId IN
        (/\ up[u].pc = "insert" /\ up'[u].pc = "done"
         /\ IF cloud THEN id \in DOMAIN bucket ELSE id \in DOMAIN finalFiles)
        => /\ up'[u].resp = Resp(500, "server_error")
           /\ id \notin DOMAIN videos'
           /\ IF cloud
              THEN id \in DOMAIN bucket' /\ bucket'[id] = bucket[id]
              ELSE id \in DOMAIN finalFiles' /\ finalFiles'[id] = finalFiles[id]]_vars

\* Cloud mode: connection u1 was answered server_error and left an object in
\* the bucket that has no Video row, with no other upload started.
C32_Witness ==
    /\ cloud /\ orm = "drizzle"
    /\ up["u1"].pc = "done" /\ up["u1"].resp = Resp(500, "server_error")
    /\ up["u2"].pc = "idle"
    /\ \E id \in DOMAIN bucket : id \notin DOMAIN videos

----
\* ===================== claims on concurrent views =====================

\* C33: in every interleaving of record-view requests, the step that answers
\* a request ok without deduplicated raises that video's viewCount by exactly
\* one over its value just before the step, and no step lowers a viewCount;
\* so N requests answered ok leave it exactly N higher.
C33_NoIncrementLost ==
    [][/\ \A p \in Viewers :
            (/\ vreq[p].pc \notin {"idle", "done"} /\ vreq'[p].pc = "done"
             /\ vreq'[p].resp = Resp(200, "ok"))
            => videos'[vreq[p].videoId].viewCount
                 = videos[vreq[p].videoId].viewCount + 1
       /\ \A id \in DOMAIN videos :
            /\ videos'[id].viewCount >= videos[id].viewCount
            /\ videos'[id].viewCount # videos[id].viewCount
               => \E p \in Viewers : /\ vreq[p].videoId = id
                                     /\ vreq'[p].resp = Resp(200, "ok")
                                     /\ vreq'[p] # vreq[p]]_vars

\* Two requests of distinct sessions came in at the same hour, both were
\* answered ok, and the count is 2.
C33_Witness ==
    /\ \A p \in Viewers : vreq[p].pc = "done" /\ vreq[p].resp = Resp(200, "ok")
    /\ viewReqs = 2 /\ now = 0
    /\ \E r1, r2 \in views :
        r1.sessionId # r2.sessionId /\ r1.videoId = 1 /\ r2.videoId = 1
    /\ videos[1].viewCount = 2

----
\* ===================== claims on the order of the validations =====================

\* C34: a request with no file is answered missing_file; one with a file
\* over the limit file_too_large, whatever its type; one with a file within
\* the limit that is no video invalid_type.  Each of these answers is given
\* with no id taken and no raw file written; a request that passes all three
\* takes the next id, and its raw file is not yet written.
C34_ValidationOrder ==
    [][\A u \in Uploaders :
        Receives(u) =>
          LET f == up'[u].file
              rejected == /\ up'[u].pc = "done" /\ up'[u].videoId = 0
                          /\ nextId' = nextId /\ rawFiles' = rawFiles
          IN IF ~f.present
             THEN up'[u].resp = Resp(400, "missing_file") /\ rejected
             ELSE IF f.size > 200 * 1024 * 1024
             THEN up'[u].resp = Resp(413, "file_too_large") /\ rejected
             ELSE IF ~f.videoMime /\ ~f.webmName
             THEN up'[u].resp = Resp(400, "invalid_type") /\ rejected
             ELSE /\ up'[u].pc = "saveRaw" /\ up'[u].videoId = nextId
                  /\ nextId' = nextId + 1 /\ rawFiles' = rawFiles]_vars

\* A file that is both over the limit and no video was answered
\* file_too_large, and nothing was stored.
C34_Witness ==
    /\ up["u1"].pc = "done" /\ up["u1"].resp = Resp(413, "file_too_large")
    /\ up["u1"].file.present /\ ~up["u1"].file.videoMime
    /\ ~up["u1"].file.webmName
    /\ up["u1"].videoId = 0 /\ nextId = 1 /\ DOMAIN rawFiles = {}

----
\* ===================== claims on byte ranges =====================

\* C35: a file served without a Range header is answered 200 with the whole
\* content; one served with a Range header is answered 206 with a
\* Content-Range whose start and end are numbers with
\* 0 <= start <= end <= size - 1 and a Content-Length equal to the number of
\* bytes in the body.
C35_RangeResponsesWellFormed ==
    (freq.pc = "done" /\ freq.resp.status \in {200, 206})
    => IF freq.range.present
       THEN /\ freq.resp.status = 206
            /\ IsNum(freq.served.contentRange[1])
            /\ IsNum(freq.served.contentRange[2])
            /\ 0 <= freq.served.contentRange[1].v
            /\ freq.served.contentRange[1].v <= freq.served.contentRange[2].v
            /\ freq.served.contentRange[2].v <= MediaSize - 1
            /\ freq.served.contentLength = Num(freq.served.bodyLength)
       ELSE /\ freq.resp.status = 200
            /\ freq.served.bodyLength = MediaSize
            /\ freq.served.contentLength = Num(MediaSize)

----
\* ===================== claims on the player's reports =====================

\* C36: no report sent by the player is answered 400 missing_fields.
C36_PlayerReportsAccepted ==
    \A p \in Watchers : wreq[p].resp # Resp(400, "missing_fields")

----
\* ===================== claims on the trim UI =====================

\* C37: while the recording is being edited, the Trimmer's range and the
\* trimData passed to the uploader both satisfy
\* 0 <= startTime < endTime <= duration.
C37_TrimRangeValid ==
    ui.trimmer.stage = "preview"
    => /\ 0 <= ui.trimmer.startTime
       /\ ui.trimmer.startTime < ui.trimmer.endTime
       /\ ui.trimmer.endTime <= ui.trimmer.duration
       /\ 0 <= ui.trimmer.trimData[1]
       /\ ui.trimmer.trimData[1] < ui.trimmer.trimData[2]
       /\ ui.trimmer.trimData[2] <= ui.trimmer.duration

----
\* ===================== claims on the recorder panel =====================

\* C38: whenever the MediaRecorder has stopped (user stop, 'stop sharing',
\* stop with no data, stop after an error), the panel eventually is out of
\* the recording state: isRecording and isPaused false, the timer cleared
\* and the streams released.
C38_RecorderLeavesRecordingState ==
    (ui.recorder.recorder = "inactive")
    ~> (/\ ~ui.recorder.isRecording /\ ~ui.recorder.isPaused
        /\ ~ui.recorder.timer /\ ~ui.recorder.streams)

----
\* ===================== claims on the uploader =====================

\* C39: once handleUpload has finished, on any path, isUploading is false
\* and no progress interval is left set.
C39_UploadEndsClean ==
    (ui.uploader.attempts > 0 /\ ui.uploader.pc = "idle")
    => (~ui.uploader.isUploading /\ ui.uploader.intervals = 0)

====
